---- MODULE Spec2Model ----
(***************************************************************************)
(* A model of image-cgroupsv2-inspector's per-image analysis               *)
(* (src/src/image_analyzer.py): the compatibility classifiers as pure      *)
(* operators over version strings, and ImageAnalyzer.analyze_image as a    *)
(* state machine over the working directory, the container engine and the  *)
(* ledger of analyzed images.                                              *)
(*                                                                         *)
(* A Python str is a sequence of one-character strings, so that replace,   *)
(* split, isdigit and int are computed the way Python computes them.       *)
(***************************************************************************)
EXTENDS Integers, Sequences, FiniteSets, TLC

VARIABLES
    cin,        \* the classifier call under study: its arguments and how they were written
    cdone,      \* whether that call has returned
    cverdict,   \* the bool it returned
    rin,        \* the ImageAnalysisResult whose aggregate properties are read
    rflags,     \* per family: what its *_compatible property returned, once read
    pc,         \* per analyzer: where its analyze_image call stands
    call,       \* per analyzer: the arguments of the current call and its cache_key
    result,     \* per analyzer: the ImageAnalysisResult under construction
    todo,       \* per analyzer: the found paths the current family loop has yet to visit
    checked,    \* per analyzer: java_checked / node_checked / dotnet_checked
    analyzed,   \* per analyzer: self._analyzed_images
    tarball,    \* per analyzer: what rootfs/image-rootfs.tar holds
    extracted,  \* per analyzer: what rootfs/extracted holds
    images,     \* the engine's local image storage
    containers, \* the engine's stopped containers, by the analyzer that created them
    trace,      \* per analyzer: the external commands the current call has run
    events,     \* per analyzer: what went wrong in the environment during the current call
    ret,        \* per analyzer: what the last call returned
    got,        \* per analyzer: what the last get_cached_result returned
    first,      \* per analyzer: what the first call of each identity returned
    ncalls,     \* per analyzer: calls made so far
    nfaults,    \* commands whose failure the code does not look at, so far
    cluster,    \* the objects the cluster's API serves to the collector
    collector,  \* ImageCollector.namespace and ImageCollector.exclude_patterns
    rows,       \* ImageCollector.images: one ContainerImageInfo per reported container
    warnings,   \* the kinds whose collection printed "Warning: Error collecting from"
    kpc,        \* where collect_all / analyze_images stands
    unique_images,  \* analyze_images: the image names the loop has yet to visit
    results_cache,  \* analyze_images: results_cache
    csv,        \* what the run's CSV file holds
    requested   \* the image names analyze_images has passed to analyze_image, in order

cvars == <<cin, cdone, cverdict, rin, rflags>>

avars == <<pc, call, result, todo, checked, analyzed, tarball, extracted, images,
           containers, trace, events, ret, got, first, ncalls, nfaults>>

kvars == <<cluster, collector, rows, warnings, kpc, unique_images, results_cache, csv,
           requested>>

vars == <<cvars, avars, kvars>>

-----------------------------------------------------------------------------
(* Python str and int primitives used by the classifiers                    *)

Digits == {"0", "1", "2", "3", "4", "5", "6", "7", "8", "9"}

DigitVal(c) ==
    CASE c = "0" -> 0 [] c = "1" -> 1 [] c = "2" -> 2 [] c = "3" -> 3
      [] c = "4" -> 4 [] c = "5" -> 5 [] c = "6" -> 6 [] c = "7" -> 7
      [] c = "8" -> 8 [] c = "9" -> 9

\* str.isdigit(): non-empty and every character a digit
IsDigit(s) == Len(s) > 0 /\ \A i \in 1..Len(s) : s[i] \in Digits

\* the value of a string of digits
RECURSIVE DigitsToInt(_)
DigitsToInt(s) ==
    IF Len(s) = 0 THEN 0
    ELSE 10 * DigitsToInt(SubSeq(s, 1, Len(s) - 1)) + DigitVal(s[Len(s)])

\* str.replace(old, new): leftmost non-overlapping occurrences
RECURSIVE StrReplace(_, _, _)
StrReplace(s, old, new) ==
    IF Len(s) < Len(old) THEN s
    ELSE IF SubSeq(s, 1, Len(old)) = old
         THEN new \o StrReplace(SubSeq(s, Len(old) + 1, Len(s)), old, new)
         ELSE <<s[1]>> \o StrReplace(Tail(s), old, new)

\* str.split(sep) for a one-character sep: empty pieces are kept
RECURSIVE StrSplit(_, _)
StrSplit(s, sep) ==
    IF \A i \in 1..Len(s) : s[i] # sep THEN <<s>>
    ELSE LET i == CHOOSE k \in 1..Len(s) :
                      s[k] = sep /\ \A j \in 1..(k - 1) : s[j] # sep
         IN <<SubSeq(s, 1, i - 1)>> \o StrSplit(SubSeq(s, i + 1, Len(s)), sep)

\* the digit groups int() accepts after the sign: digits with single
\* underscores between them
IntBodyOk(s) ==
    /\ Len(s) > 0
    /\ s[1] \in Digits
    /\ s[Len(s)] \in Digits
    /\ \A i \in 1..Len(s) : s[i] \in Digits \/ s[i] = "_"
    /\ \A i \in 1..(Len(s) - 1) : ~(s[i] = "_" /\ s[i + 1] = "_")

StripUnderscores(s) == SelectSeq(s, LAMBDA c : c # "_")

HasSign(s) == Len(s) > 0 /\ s[1] \in {"-", "+"}

UnsignedPart(s) == IF HasSign(s) THEN Tail(s) ELSE s

\* int(p) raises ValueError unless p is an optionally signed decimal literal
IntRaises(s) == ~IntBodyOk(UnsignedPart(s))

IntValue(s) ==
    LET v == DigitsToInt(StripUnderscores(UnsignedPart(s)))
    IN IF HasSign(s) /\ s[1] = "-" THEN 0 - v ELSE v

-----------------------------------------------------------------------------
(* The compatibility classifiers                                            *)

\* version.replace("-b", ".").replace("_", ".")
NormalizeVersion(version) ==
    StrReplace(StrReplace(version, <<"-", "b">>, <<".">>), <<"_">>, <<".">>)

\* [int(p) for p in version.split(".") if p.isdigit()]
JavaParts(version) ==
    LET comps == SelectSeq(StrSplit(NormalizeVersion(version), "."), IsDigit)
    IN [i \in 1..Len(comps) |-> DigitsToInt(comps[i])]

\* parts[k] in Python's 0-based indexing, or dflt when the list is shorter
PartOr(parts, k, dflt) == IF Len(parts) > k THEN parts[k + 1] ELSE dflt

JavaMajor(parts) ==
    IF parts[1] = 1 /\ Len(parts) > 1 THEN parts[2] ELSE parts[1]

JavaMinor(parts) ==
    IF parts[1] = 1 /\ Len(parts) > 1 THEN PartOr(parts, 2, 0) ELSE PartOr(parts, 1, 0)

JavaUpdate(parts) ==
    IF parts[1] = 1 /\ Len(parts) > 1 THEN PartOr(parts, 3, 0) ELSE PartOr(parts, 2, 0)

\* variant: Java 8 IBM Semeru held to the OpenJDK threshold
JavaRules_SemeruAsOpenJDK(parts, runtime_type) ==
    LET major  == JavaMajor(parts)
        minor  == JavaMinor(parts)
        update == JavaUpdate(parts)
    IN IF major >= 15 THEN TRUE
       ELSE IF major = 11 THEN (IF minor > 0 THEN TRUE ELSE update >= 16)
       ELSE IF major = 8 THEN
            IF runtime_type = "IBM Java" THEN
                 IF minor > 0 THEN TRUE
                 ELSE IF update > 7 THEN TRUE
                 ELSE IF update = 7 /\ Len(parts) > 3 /\ parts[4] >= 15 THEN TRUE
                 ELSE FALSE
            ELSE update >= 372
       ELSE IF 9 <= major /\ major <= 14 THEN FALSE
       ELSE TRUE

\* variant: the 9..14 rejection left out
JavaRules_NoRange(parts, runtime_type) ==
    LET major  == JavaMajor(parts)
        minor  == JavaMinor(parts)
        update == JavaUpdate(parts)
    IN IF major >= 15 THEN TRUE
       ELSE IF major = 11 THEN (IF minor > 0 THEN TRUE ELSE update >= 16)
       ELSE IF major = 8 THEN
            IF runtime_type = "IBM Java" THEN
                 IF minor > 0 THEN TRUE
                 ELSE IF update > 7 THEN TRUE
                 ELSE IF update = 7 /\ Len(parts) > 3 /\ parts[4] >= 15 THEN TRUE
                 ELSE FALSE
            ELSE IF runtime_type = "IBM Semeru" THEN update >= 345
            ELSE update >= 372
       ELSE TRUE

\* the rules of _check_java_compatibility, in the order the code tries them
JavaRules(parts, runtime_type) ==
    LET major  == JavaMajor(parts)
        minor  == JavaMinor(parts)
        update == JavaUpdate(parts)
    IN IF major >= 15 THEN TRUE
       ELSE IF major = 11 THEN (IF minor > 0 THEN TRUE ELSE update >= 16)
       ELSE IF major = 8 THEN
            IF runtime_type = "IBM Java" THEN
                 IF minor > 0 THEN TRUE
                 ELSE IF update > 7 THEN TRUE
                 ELSE IF update = 7 /\ Len(parts) > 3 /\ parts[4] >= 15 THEN TRUE
                 ELSE FALSE
            ELSE IF runtime_type = "IBM Semeru" THEN update >= 345
            ELSE update >= 372
       ELSE IF major = 17 /\ runtime_type = "IBM Semeru" THEN minor > 0 \/ update >= 4
       ELSE IF major = 18 /\ runtime_type = "IBM Semeru" THEN minor > 0 \/ update >= 2
       ELSE IF 9 <= major /\ major <= 14 THEN FALSE
       ELSE TRUE

check_java_compatibility(version, runtime_type) ==
    LET parts == JavaParts(version)
    IN IF Len(parts) = 0 THEN FALSE ELSE JavaRules(parts, runtime_type)

\* [int(p) for p in version.split(".")]: one component int() rejects raises
SplitRaises(version) ==
    LET comps == StrSplit(version, ".")
    IN \E i \in 1..Len(comps) : IntRaises(comps[i])

IntParts(version) ==
    LET comps == StrSplit(version, ".")
    IN [i \in 1..Len(comps) |-> IntValue(comps[i])]

\* variant: 20.3 needs a patch level above 0
NodeRules_PatchCounts(parts) ==
    LET major == parts[1]
        minor == parts[2]
        patch == parts[3]
    IN IF major > 20 THEN TRUE
       ELSE IF major = 20 /\ minor > 3 THEN TRUE
       ELSE IF major = 20 /\ minor = 3 THEN patch > 0
       ELSE FALSE

NodeRules(parts) ==
    LET major == parts[1]
        minor == parts[2]
        patch == parts[3]
    IN IF major > 20 THEN TRUE
       ELSE IF major = 20 /\ minor > 3 THEN TRUE
       ELSE IF major = 20 /\ minor = 3 THEN patch >= 0
       ELSE FALSE

\* variant: the except clause answers True
check_node_compatibility_FailOpen(version) ==
    IF SplitRaises(version) THEN TRUE
    ELSE LET parts == IntParts(version)
         IN IF Len(parts) < 3 THEN FALSE ELSE NodeRules(parts)

check_node_compatibility(version) ==
    IF SplitRaises(version) THEN FALSE
    ELSE LET parts == IntParts(version)
         IN IF Len(parts) < 3 THEN FALSE ELSE NodeRules(parts)

\* variant: major 5 itself rejected
check_dotnet_compatibility_Above5(version) ==
    IF SplitRaises(version) THEN FALSE
    ELSE LET parts == IntParts(version)
         IN IF Len(parts) < 2 THEN FALSE ELSE parts[1] > 5

check_dotnet_compatibility(version) ==
    IF SplitRaises(version) THEN FALSE
    ELSE LET parts == IntParts(version)
         IN IF Len(parts) < 2 THEN FALSE ELSE parts[1] >= 5

-----------------------------------------------------------------------------
(* Version strings handed to the classifiers                                *)

DigitChar(d) ==
    CASE d = 0 -> "0" [] d = 1 -> "1" [] d = 2 -> "2" [] d = 3 -> "3"
      [] d = 4 -> "4" [] d = 5 -> "5" [] d = 6 -> "6" [] d = 7 -> "7"
      [] d = 8 -> "8" [] d = 9 -> "9"

\* the decimal digits of n, as the probed binary prints them
RECURSIVE IntToStr(_)
IntToStr(n) ==
    IF n < 10 THEN <<DigitChar(n)>>
    ELSE IntToStr(n \div 10) \o <<DigitChar(n % 10)>>

\* longest version, in components after an optional legacy "1." prefix
MaxParts == 4

Families == {"java", "node", "dotnet"}

JavaFlavors == {"IBM Semeru", "IBM Java", "OpenJDK", "HotSpot", "Unknown"}

FlavorsOf(family) ==
    IF family = "java" THEN JavaFlavors
    ELSE IF family = "node" THEN {"NodeJS"} ELSE {".NET"}

\* the values a component takes at position i: the thresholds of the rules
\* and their neighbours
ComponentDomain(family, i) ==
    IF family = "java" THEN
         IF i = 1 THEN {6, 7, 8, 9, 10, 11, 12, 13, 14, 15, 17, 18, 21}
         ELSE IF i = 2 THEN {0, 1}
         ELSE IF i = 3 THEN {0, 1, 2, 3, 4, 7, 8, 15, 16, 344, 345, 371, 372}
         ELSE {14, 15}
    ELSE IF i = 1 THEN {3, 4, 5, 8, 19, 20, 21}
         ELSE IF i = 2 THEN {0, 2, 3, 4}
         ELSE IF i = 3 THEN {0, 9, 122}
         ELSE {1}

\* the separator written before component i: "1.8.0_372-b07" style when
\* usep, dots otherwise (JAVA_VERSION_PATTERN admits both)
SepBefore(usep, i) ==
    IF usep /\ i = 3 THEN <<"_">>
    ELSE IF usep /\ i = 4 THEN <<"-", "b">>
    ELSE <<".">>

RECURSIVE JoinFrom(_, _, _)
JoinFrom(comps, usep, i) ==
    IF i > Len(comps) THEN <<>>
    ELSE (IF i = 1 THEN <<>> ELSE SepBefore(usep, i))
         \o IntToStr(comps[i]) \o JoinFrom(comps, usep, i + 1)

WrittenVersion(legacy, usep, comps) ==
    (IF legacy THEN <<"1", ".">> ELSE <<>>) \o JoinFrom(comps, usep, 1)

Unknown == <<"u", "n", "k", "n", "o", "w", "n">>

\* strings that are not a dotted list of numbers: the probe's sentinel,
\* empty and separator-only strings, suffixed and signed components
OddVersions ==
    { Unknown, <<>>, <<".">>, <<"_">>, <<"-", "b">>, <<".", ".">>,
      <<"v", "2", "1">>, <<"1", "7", "-", "e", "a">>,
      <<"2", "1", ".", "x", ".", "0">>, <<"x", ".", "2", "1">>,
      <<"-", "2", "1", ".", "3", ".", "0">>,
      <<"+", "2", "1", ".", "+", "3", ".", "+", "0">>,
      <<"2", "_", "1", ".", "3", ".", "0">>,
      <<"2", "1", "-", "b", "3", "_", "0">> }

RECURSIVE ListsOfLen(_, _)
ListsOfLen(family, n) ==
    IF n = 0 THEN {<<>>}
    ELSE { Append(c, v) : c \in ListsOfLen(family, n - 1),
                          v \in ComponentDomain(family, n) }

ComponentLists(family) == UNION { ListsOfLen(family, n) : n \in 1..MaxParts }

\* a call of a classifier on a written dotted version: the components as
\* written (comps), whether "1." was put in front, and the argument string
WrittenCalls ==
    { [family |-> f, flavor |-> fl, wellformed |-> TRUE, legacy |-> lg,
       comps |-> c, version |-> WrittenVersion(lg, us, c)] :
        f \in {"java"}, fl \in JavaFlavors, lg \in BOOLEAN, us \in BOOLEAN,
        c \in ComponentLists("java") }
    \cup
    { [family |-> f, flavor |-> fl, wellformed |-> TRUE, legacy |-> FALSE,
       comps |-> c, version |-> WrittenVersion(FALSE, FALSE, c)] :
        f \in {"node"}, fl \in {"NodeJS"}, c \in ComponentLists("node") }
    \cup
    { [family |-> f, flavor |-> fl, wellformed |-> TRUE, legacy |-> FALSE,
       comps |-> c, version |-> WrittenVersion(FALSE, FALSE, c)] :
        f \in {"dotnet"}, fl \in {".NET"}, c \in ComponentLists("dotnet") }

OddCalls ==
    { [family |-> f[1], flavor |-> f[2], wellformed |-> FALSE, legacy |-> FALSE,
       comps |-> <<>>, version |-> v] :
        f \in { <<fam, fl>> : fam \in Families, fl \in JavaFlavors \cup {"NodeJS", ".NET"} },
        v \in OddVersions }

ClassifierCalls ==
    WrittenCalls \cup { c \in OddCalls : c.flavor \in FlavorsOf(c.family) }

-----------------------------------------------------------------------------
(* Paths and the filesystem seen by os.walk, os.path and pathlib            *)
(* A path is the sequence of its components below "/"; the filesystem is a *)
(* sequence of entries (in directory-listing order), each a directory, a   *)
(* regular file or a symbolic link with its target.                        *)

\* symbolic links the kernel follows in one path resolution before ELOOP
MaxSymlinks == 3

\* self.rootfs_path / "extracted", under the resolved rootfs_base
ExtractPath == <<"work", "rootfs", "extracted">>

Dir(p)  == [path |-> p, kind |-> "dir",  abs |-> FALSE, target |-> <<>>]
File(p) == [path |-> p, kind |-> "file", abs |-> FALSE, target |-> <<>>]
\* a link whose target is absolute (abs) or relative to the link's directory
Link(p, abs, target) == [path |-> p, kind |-> "link", abs |-> abs, target |-> target]

Paths(fs) == { fs[i].path : i \in 1..Len(fs) }

Node(fs, p) == fs[CHOOSE i \in 1..Len(fs) : fs[i].path = p]

DirName(p) == SubSeq(p, 1, Len(p) - 1)

BaseName(p) == p[Len(p)]

\* os.path.normpath of an absolute path: "." dropped, ".." removes the
\* component before it and is dropped at the root
RECURSIVE NormFrom(_, _)
NormFrom(done, rest) ==
    IF rest = <<>> THEN done
    ELSE IF Head(rest) = "." THEN NormFrom(done, Tail(rest))
    ELSE IF Head(rest) = ".."
         THEN NormFrom(IF done = <<>> THEN <<>> ELSE DirName(done), Tail(rest))
    ELSE NormFrom(Append(done, Head(rest)), Tail(rest))

NormPath(p) == NormFrom(<<>>, p)

\* length of the longest common prefix of two paths
RECURSIVE CommonLen(_, _)
CommonLen(a, b) ==
    IF a = <<>> \/ b = <<>> \/ Head(a) # Head(b) THEN 0
    ELSE 1 + CommonLen(Tail(a), Tail(b))

\* os.path.relpath(path, start): up from start to the common ancestor,
\* then down to path
RelPath(path, start) ==
    LET a == NormPath(path)
        b == NormPath(start)
        k == CommonLen(a, b)
    IN [i \in 1..(Len(b) - k) |-> ".."] \o SubSeq(a, k + 1, Len(a))

\* what a path that cannot be resolved resolves to
Broken == <<"<unresolved>">>

\* the kernel's resolution of a path, following every symbolic link on the
\* way (an absolute target restarts at the host's root): the real path of
\* the entry reached, or Broken (ENOENT, ENOTDIR, ELOOP)
RECURSIVE ResolveFrom(_, _, _, _)
ResolveFrom(fs, done, rest, fuel) ==
    IF rest = <<>> THEN done
    ELSE IF Head(rest) = "." THEN ResolveFrom(fs, done, Tail(rest), fuel)
    ELSE IF Head(rest) = ".."
         THEN ResolveFrom(fs, IF done = <<>> THEN <<>> ELSE DirName(done), Tail(rest), fuel)
    ELSE LET np == Append(done, Head(rest))
         IN IF np \notin Paths(fs) THEN Broken
            ELSE LET n == Node(fs, np)
                 IN IF n.kind = "link"
                    THEN IF fuel = 0 THEN Broken
                         ELSE ResolveFrom(fs, IF n.abs THEN <<>> ELSE done,
                                          n.target \o Tail(rest), fuel - 1)
                    ELSE IF n.kind = "file" /\ Tail(rest) # <<>> THEN Broken
                    ELSE ResolveFrom(fs, np, Tail(rest), fuel)

Resolve(fs, p) == ResolveFrom(fs, <<>>, p, MaxSymlinks)

\* os.path.exists, os.path.isfile, os.path.isdir: they follow links
PathExists(fs, p) == p = <<>> \/ Resolve(fs, p) # Broken

IsFile(fs, p) ==
    /\ p # <<>>
    /\ Resolve(fs, p) # Broken
    /\ Resolve(fs, p) # <<>>
    /\ Node(fs, Resolve(fs, p)).kind = "file"

IsDirectory(fs, p) ==
    \/ p = <<>>
    \/ /\ Resolve(fs, p) # Broken
       /\ (Resolve(fs, p) = <<>> \/ Node(fs, Resolve(fs, p)).kind = "dir")

\* os.path.islink: the last component itself is a link (not followed)
IsLink(fs, p) ==
    /\ p # <<>>
    /\ Resolve(fs, DirName(p)) # Broken
    /\ Append(Resolve(fs, DirName(p)), BaseName(p)) \in Paths(fs)
    /\ Node(fs, Append(Resolve(fs, DirName(p)), BaseName(p))).kind = "link"

\* os.readlink
ReadLink(fs, p) == Node(fs, Append(Resolve(fs, DirName(p)), BaseName(p)))

\* os.path.realpath of a path that exists
RealPath(fs, p) == Resolve(fs, p)

\* the names a directory lists, in listing order
RECURSIVE ListFrom(_, _, _)
ListFrom(fs, realdir, i) ==
    IF i > Len(fs) THEN <<>>
    ELSE (IF Len(fs[i].path) = Len(realdir) + 1 /\ DirName(fs[i].path) = realdir
          THEN <<BaseName(fs[i].path)>> ELSE <<>>)
         \o ListFrom(fs, realdir, i + 1)

ListDir(fs, dir) == ListFrom(fs, Resolve(fs, dir), 1)

RECURSIVE Concat(_)
Concat(seqs) == IF seqs = <<>> THEN <<>> ELSE Head(seqs) \o Concat(Tail(seqs))

\* os.walk(top, followlinks=True), top-down: the (root, file) pairs joined,
\* in the order the loop of _find_binaries meets them. An entry is a
\* directory when it resolves to one; a link the kernel refuses to follow
\* any further (ELOOP) is listed among the files.
RECURSIVE WalkFiles(_, _)
WalkFiles(fs, root) ==
    LET names == ListDir(fs, root)
        files == SelectSeq(names, LAMBDA e : ~IsDirectory(fs, Append(root, e)))
        dirs  == SelectSeq(names, LAMBDA e : IsDirectory(fs, Append(root, e)))
    IN [i \in 1..Len(files) |-> Append(root, files[i])]
       \o Concat([i \in 1..Len(dirs) |-> WalkFiles(fs, Append(root, dirs[i]))])

-----------------------------------------------------------------------------
(* The images under analysis and the host                                   *)

Under(prefix, entries) ==
    [i \in 1..Len(entries) |-> [entries[i] EXCEPT !.path = prefix \o @]]

\* the root filesystem each image exports, in tar order
ImageTree(image) ==
    IF image = "app" THEN
        \* a JDK behind the alternatives system
        << Dir(<<"usr">>), Dir(<<"usr", "bin">>),
           Link(<<"usr", "bin", "java">>, TRUE, <<"etc", "alternatives", "java">>),
           Dir(<<"usr", "lib">>), Dir(<<"usr", "lib", "jvm">>),
           Dir(<<"usr", "lib", "jvm", "bin">>),
           File(<<"usr", "lib", "jvm", "bin", "java">>),
           Dir(<<"etc">>), Dir(<<"etc", "alternatives">>),
           Link(<<"etc", "alternatives", "java">>, TRUE, <<"usr", "lib", "jvm", "bin", "java">>) >>
    ELSE IF image = "net" THEN
        \* Node.js, and a .NET host reached through a relative link
        << Dir(<<"usr">>), Dir(<<"usr", "bin">>),
           File(<<"usr", "bin", "node">>),
           Link(<<"usr", "bin", "dotnet">>, FALSE, <<"..", "lib", "dotnet", "dotnet">>),
           Dir(<<"usr", "lib">>), Dir(<<"usr", "lib", "dotnet">>),
           File(<<"usr", "lib", "dotnet", "dotnet">>) >>
    ELSE IF image = "chain" THEN
        \* a launcher that is a relative link to a link whose absolute
        \* target also exists on the host
        << Dir(<<"opt">>), Dir(<<"opt", "jdk">>),
           Link(<<"opt", "jdk", "java">>, TRUE, <<"usr", "bin", "java">>),
           Dir(<<"usr">>), Dir(<<"usr", "bin">>),
           File(<<"usr", "bin", "java">>),
           Dir(<<"usr", "local">>), Dir(<<"usr", "local", "bin">>),
           Link(<<"usr", "local", "bin", "java">>, FALSE,
                <<"..", "..", "..", "opt", "jdk", "java">>) >>
    ELSE IF image = "dirlink" THEN
        \* a JDK directory reached under a second name through a relative
        \* directory link, and a launcher linked to it through that name
        << Dir(<<"opt">>),
           Link(<<"opt", "java">>, FALSE, <<"..", "usr", "lib", "jvm">>),
           Dir(<<"usr">>), Dir(<<"usr", "bin">>),
           Link(<<"usr", "bin", "java">>, FALSE, <<"..", "..", "opt", "java", "bin", "java">>),
           Dir(<<"usr", "lib">>), Dir(<<"usr", "lib", "jvm">>),
           Dir(<<"usr", "lib", "jvm", "bin">>),
           File(<<"usr", "lib", "jvm", "bin", "java">>) >>
    ELSE IF image = "jdk" THEN
        \* one JDK whose banner is studied
        << Dir(<<"usr">>), Dir(<<"usr", "bin">>), File(<<"usr", "bin", "java">>) >>
    ELSE IF image = "sdk" THEN
        \* files named like a runtime that are not binaries, next to a runtime
        << Dir(<<"root">>), Dir(<<"root", ".dotnet">>),
           Dir(<<"root", ".dotnet", "optimizationdata">>),
           File(<<"root", ".dotnet", "optimizationdata", "dotnet">>),
           Dir(<<"usr">>), Dir(<<"usr", "bin">>),
           File(<<"usr", "bin", "dotnet">>),
           Dir(<<"usr", "share">>), Dir(<<"usr", "share", "bash-completion">>),
           File(<<"usr", "share", "bash-completion", "node">>) >>
    ELSE IF image = "alt" THEN
        \* the alternatives system with relative links, met before the JDK
        << Dir(<<"etc">>), Dir(<<"etc", "alternatives">>),
           Link(<<"etc", "alternatives", "java">>, FALSE,
                <<"..", "..", "usr", "lib", "jvm", "bin", "java">>),
           Dir(<<"usr">>), Dir(<<"usr", "bin">>),
           Link(<<"usr", "bin", "java">>, FALSE, <<"..", "..", "etc", "alternatives", "java">>),
           Dir(<<"usr", "lib">>), Dir(<<"usr", "lib", "jvm">>),
           Dir(<<"usr", "lib", "jvm", "bin">>),
           File(<<"usr", "lib", "jvm", "bin", "java">>) >>
    ELSE IF image = "cycle" THEN
        \* a directory link back to the root: a symlink cycle under the walk
        << Dir(<<"srv">>), File(<<"srv", "node">>),
           Link(<<"srv", "up">>, FALSE, <<"..">>) >>
    ELSE IF image = "renamed" THEN
        \* the family's name is a link to a file of another name
        << Dir(<<"usr">>), Dir(<<"usr", "bin">>),
           File(<<"usr", "bin", "nodejs">>),
           Link(<<"usr", "bin", "node">>, FALSE, <<"nodejs">>) >>
    ELSE IF image = "escape" THEN
        \* a relative link with more ".." than the image's root is deep
        << Dir(<<"opt">>),
           Link(<<"opt", "java">>, FALSE,
                <<"..", "..", "..", "..", "usr", "bin", "java">>) >>
    ELSE
        \* "tools": no runtime at all
        << Dir(<<"bin">>), File(<<"bin", "sh">>) >>

\* the images analyze_image is called on
Images == {"app", "net", "tools"}

\* the images whose trees the locator is studied on
LocatorImages ==
    Images \cup {"chain", "dirlink", "alt", "sdk", "jdk", "cycle", "renamed", "escape"}

\* the host outside the working directory: it has a Java of its own
HostEntries ==
    << Dir(<<"usr">>), Dir(<<"usr", "bin">>), File(<<"usr", "bin", "java">>),
       Dir(<<"work">>), Dir(<<"work", "rootfs">>) >>

\* the host filesystem while rootfs/extracted holds the given entries
HostFs(entries) == HostEntries \o <<Dir(ExtractPath)>> \o Under(ExtractPath, entries)

-----------------------------------------------------------------------------
(* The Binary Locator                                                       *)

\* JAVA_BINARY_PATTERN, NODE_BINARY_PATTERN, DOTNET_BINARY_PATTERN matched
\* against "/" + rel_path: the last component is the family's name
BinaryName(family) == family

PatternMatches(family, rel_path) ==
    rel_path # <<>> /\ BaseName(rel_path) = BinaryName(family)

\* the path _find_binaries resolves a link to: one readlink, re-rooted at
\* base_path when absolute, joined to the link's directory otherwise
ResolvedLink(fs, base_path, full_path) ==
    LET link == ReadLink(fs, full_path)
    IN NormPath(IF link.abs THEN base_path \o link.target
                ELSE DirName(full_path) \o link.target)

\* what one file of the walk adds to found
FoundFor(fs, base_path, family, full_path) ==
    IF ~PatternMatches(family, RelPath(full_path, base_path)) THEN <<>>
    ELSE IF ~(PathExists(fs, full_path) \/ IsLink(fs, full_path)) THEN <<>>
    ELSE LET resolved_path == IF IsLink(fs, full_path)
                              THEN ResolvedLink(fs, base_path, full_path)
                              ELSE full_path
         IN IF IsFile(fs, resolved_path) THEN <<resolved_path>>
            ELSE IF IsFile(fs, full_path) THEN <<full_path>>
            ELSE <<>>

find_binaries(fs, base_path, family) ==
    LET files == WalkFiles(fs, base_path)
    IN Concat([i \in 1..Len(files) |-> FoundFor(fs, base_path, family, files[i])])

HasPrefix(p, prefix) ==
    Len(p) > Len(prefix) /\ SubSeq(p, 1, Len(prefix)) = prefix

EXCLUDE_PATH_PREFIXES ==
    { <<"var", "lib", "alternatives">>, <<"var", "lib", "dpkg", "alternatives">>,
      <<"etc", "alternatives">>, <<"usr", "share", "bash-completion">>,
      <<"etc", "bash_completion.d">> }

\* '/.dotnet/optimizationdata/' occurs in the path
ContainsOptimizationData(p) ==
    \E i \in 1..Len(p) :
        i + 1 < Len(p) /\ p[i] = ".dotnet" /\ p[i + 1] = "optimizationdata"

is_excluded_path_PrefixesOnly(container_path) ==
    \E excl \in EXCLUDE_PATH_PREFIXES : HasPrefix(container_path, excl)

\* a container path is "/" followed by its components
is_excluded_path(container_path) ==
    \/ \E excl \in EXCLUDE_PATH_PREFIXES : HasPrefix(container_path, excl)
    \/ ContainsOptimizationData(container_path)

-----------------------------------------------------------------------------
(* The Version Prober                                                       *)

\* no match of a version pattern
NoMatch == <<>>

\* What one `podman run --entrypoint <binary> <image> -version` can give:
\* its exit code, the flavor markers present in stderr + stdout, and what
\* JAVA_VERSION_PATTERN (quoted) and JAVA_VERSION_ALT_PATTERN (loose) find
\* there. A timeout is exit code -1 with "Command timed out" as stderr.
\* A binary may print its banner and still exit non-zero.
JavaProbeOutputs ==
    { [exit_code |-> 0 - 1, markers |-> {}, quoted |-> NoMatch, loose |-> NoMatch],
      [exit_code |-> 0, markers |-> {"OpenJDK"},
       quoted |-> <<"1", ".", "8", ".", "0", "_", "3", "7", "2">>, loose |-> NoMatch],
      [exit_code |-> 1, markers |-> {"OpenJDK"},
       quoted |-> <<"1", ".", "8", ".", "0", "_", "3", "7", "2">>, loose |-> NoMatch] }

\* exit code and what NODE_VERSION_PATTERN / DOTNET_VERSION_PATTERN finds
\* in stdout + stderr
NodeProbeOutputs ==
    { [exit_code |-> 0 - 1, found |-> NoMatch],
      [exit_code |-> 0, found |-> <<"2", "0", ".", "3", ".", "0">>],
      [exit_code |-> 1, found |-> <<"2", "0", ".", "3", ".", "0">>] }

DotnetProbeOutputs ==
    { [exit_code |-> 125, found |-> NoMatch],
      [exit_code |-> 0, found |-> <<"3", ".", "1", ".", "4">>],
      [exit_code |-> 125, found |-> <<"3", ".", "1", ".", "4">>] }

\* the spellings of the flavor markers a banner can hold: as the code
\* writes them, and in another letter case
MarkerSpellings ==
    { "IBM Semeru", "ibm semeru", "IBM J9", "ibm j9", "IBM SDK", "ibm sdk",
      "OpenJDK", "openjdk", "HotSpot", "hotspot" }

MaxMarkers == 2

\* the banners studied for the image "jdk": up to MaxMarkers markers, and a
\* Java 8 update between the Semeru and the generic minimum, the generic
\* minimum, or no version
JavaBanners ==
    { [exit_code |-> 0, markers |-> m, quoted |-> q, loose |-> NoMatch] :
        m \in { x \in SUBSET MarkerSpellings : Cardinality(x) <= MaxMarkers },
        q \in { NoMatch, <<"1", ".", "8", ".", "0", "_", "3", "4", "5">>,
                <<"1", ".", "8", ".", "0", "_", "3", "7", "2">> } }

\* IBM_SEMERU_PATTERN and IBM_SDK_PATTERN (re.IGNORECASE) searched in the
\* output
IBM_SEMERU_PATTERN(output) == output.markers \cap {"IBM Semeru", "ibm semeru"} # {}

IBM_SDK_PATTERN(output) ==
    output.markers \cap {"IBM J9", "ibm j9", "IBM SDK", "ibm sdk"} # {}

JavaRuntimeType_OpenJDKFirst(output) ==
    IF output.markers \cap {"OpenJDK", "openjdk"} # {} THEN "OpenJDK"
    ELSE IF IBM_SEMERU_PATTERN(output) THEN "IBM Semeru"
    ELSE IF IBM_SDK_PATTERN(output) THEN "IBM Java"
    ELSE IF "HotSpot" \in output.markers THEN "HotSpot"
    ELSE "Unknown"

\* runtime_type: the first marker present, in the order the code tests
\* them; "OpenJDK" in output or "openjdk" in output.lower(), and
\* "HotSpot" in output as written
JavaRuntimeType(output) ==
    IF IBM_SEMERU_PATTERN(output) THEN "IBM Semeru"
    ELSE IF IBM_SDK_PATTERN(output) THEN "IBM Java"
    ELSE IF output.markers \cap {"OpenJDK", "openjdk"} # {} THEN "OpenJDK"
    ELSE IF "HotSpot" \in output.markers THEN "HotSpot"
    ELSE "Unknown"

JavaVersion(output) ==
    IF output.quoted # NoMatch THEN output.quoted
    ELSE IF output.loose # NoMatch THEN output.loose
    ELSE Unknown

FoundVersion(output) == IF output.found # NoMatch THEN output.found ELSE Unknown

ProbeOutputs(family) ==
    IF family = "java" THEN JavaProbeOutputs
    ELSE IF family = "node" THEN NodeProbeOutputs
    ELSE DotnetProbeOutputs

\* what a probe of a binary of the image can print
ProbeOutputsOf(image, family) ==
    IF image = "jdk" /\ family = "java" THEN JavaBanners ELSE ProbeOutputs(family)

\* stderr + stdout (Java) or stdout + stderr: the text without the exit code
JavaOutputText(output) ==
    [markers |-> output.markers, quoted |-> output.quoted, loose |-> output.loose]

OutputText(output) == [found |-> output.found]

\* variant: a probe that exited non-zero yields no version
BinaryInfoFor_ByExitCode(family, container_path, output) ==
    [path |-> container_path,
     version |-> IF output.exit_code = 0
                 THEN (IF family = "java" THEN JavaVersion(output) ELSE FoundVersion(output))
                 ELSE Unknown,
     version_output |-> IF family = "java" THEN JavaOutputText(output) ELSE OutputText(output),
     is_compatible |->
         IF output.exit_code # 0 THEN FALSE
         ELSE IF family = "java"
              THEN check_java_compatibility(JavaVersion(output), JavaRuntimeType(output))
         ELSE IF family = "node" THEN check_node_compatibility(FoundVersion(output))
         ELSE check_dotnet_compatibility(FoundVersion(output)),
     runtime_type |-> IF family = "java" THEN JavaRuntimeType(output)
                      ELSE IF family = "node" THEN "NodeJS" ELSE ".NET"]

\* the BinaryInfo analyze_image appends for one probed binary
BinaryInfoFor(family, container_path, output) ==
    IF family = "java" THEN
        [path |-> container_path, version |-> JavaVersion(output),
         version_output |-> JavaOutputText(output),
         is_compatible |-> check_java_compatibility(JavaVersion(output),
                                                    JavaRuntimeType(output)),
         runtime_type |-> JavaRuntimeType(output)]
    ELSE IF family = "node" THEN
        [path |-> container_path, version |-> FoundVersion(output),
         version_output |-> OutputText(output),
         is_compatible |-> check_node_compatibility(FoundVersion(output)),
         runtime_type |-> "NodeJS"]
    ELSE
        [path |-> container_path, version |-> FoundVersion(output),
         version_output |-> OutputText(output),
         is_compatible |-> check_dotnet_compatibility(FoundVersion(output)),
         runtime_type |-> ".NET"]

-----------------------------------------------------------------------------
(* ImageAnalyzer: the ledger, the working directory and analyze_image       *)

\* analyze_image calls made on one analyzer
MaxCalls == 2

Analyzers == {1}

\* the (image_name, image_id) pairs callers pass: a name alone, and one
\* image ID that two names share
CallArgs ==
    { <<"app", "">>, <<"app", "sha256:1">>, <<"net", "sha256:1">>, <<"tools", "">> }

NoError == "None"

\* ImageAnalysisResult(image_name=image_name, image_id=image_id)
NewResult(image_name, image_id) ==
    [image_name |-> image_name, image_id |-> image_id,
     java_binaries |-> <<>>, node_binaries |-> <<>>, dotnet_binaries |-> <<>>,
     error |-> NoError]

NoResult == NewResult("", "")

\* cache_key = image_id if image_id else image_name
CacheKey(image_name, image_id) == IF image_id # "" THEN image_id ELSE image_name

\* repeat: an earlier call had the same identity; cached: the ledger had it
NoCall == [image_name |-> "", image_id |-> "", cache_key |-> "",
           repeat |-> FALSE, cached |-> FALSE]

\* d[k] = v
Put(d, k, v) == [x \in DOMAIN d \cup {k} |-> IF x = k THEN v ELSE d[x]]

EmptyDict == <<>>

\* variant: the error is not recorded
WithError_Dropped(r, error) == r

WithError(r, error) == [r EXCEPT !.error = error]

AppendBinary(r, family, info) ==
    IF family = "java" THEN [r EXCEPT !.java_binaries = Append(@, info)]
    ELSE IF family = "node" THEN [r EXCEPT !.node_binaries = Append(@, info)]
    ELSE [r EXCEPT !.dotnet_binaries = Append(@, info)]

\* all(b.is_compatible for b in binaries)
RECURSIVE AllCompatible(_)
AllCompatible(binaries) ==
    IF binaries = <<>> THEN TRUE
    ELSE Head(binaries).is_compatible /\ AllCompatible(Tail(binaries))

\* variant: any() where the code has all()
java_compatible_Any(r) ==
    IF r.java_binaries = <<>> THEN "N/A"
    ELSE IF \E i \in DOMAIN r.java_binaries : r.java_binaries[i].is_compatible
         THEN "Yes" ELSE "No"

\* ImageAnalysisResult.java_compatible
java_compatible(r) ==
    IF r.java_binaries = <<>> THEN "N/A"
    ELSE IF AllCompatible(r.java_binaries) THEN "Yes" ELSE "No"

\* ImageAnalysisResult.node_compatible
node_compatible(r) ==
    IF r.node_binaries = <<>> THEN "N/A"
    ELSE IF AllCompatible(r.node_binaries) THEN "Yes" ELSE "No"

\* ImageAnalysisResult.dotnet_compatible
dotnet_compatible(r) ==
    IF r.dotnet_binaries = <<>> THEN "N/A"
    ELSE IF AllCompatible(r.dotnet_binaries) THEN "Yes" ELSE "No"

\* the entries rootfs/extracted holds
ExtractedEntries(x) == IF x \in LocatorImages THEN ImageTree(x) ELSE <<>>

\* _find_binaries(extract_path, pattern) over every studied tree and family
FoundIn ==
    [x \in LocatorImages |->
        [family \in Families |->
            find_binaries(HostFs(ExtractedEntries(x)), ExtractPath, family)]]

found_paths(x, family) == IF x \in LocatorImages THEN FoundIn[x][family] ELSE <<>>

\* os.path.realpath of every path _find_binaries returns
RealPathIn ==
    [x \in LocatorImages |->
        [p \in UNION { { FoundIn[x][family][i] : i \in DOMAIN FoundIn[x][family] } :
                       family \in Families } |->
            RealPath(HostFs(ExtractedEntries(x)), p)]]

\* what an interrupted earlier run may have left in the working directory
Leftovers == { <<"none", "none">>, <<"app", "none">>, <<"app", "app">> }

\* variant: no except clause, the exception leaves analyze_image
ExceptionTarget_Escapes == "escaped"

EarlyReturnTarget_FallsThrough == "extract"

\* where control goes when a statement of the try block raises: the
\* except clause records it and falls through to finally
ExceptionTarget == "finally"

\* where control goes on a `return result` inside the try block: finally
\* runs, then the function returns; the statements after the try block
\* (the ledger write) are skipped
EarlyReturnTarget == "finally_return"

\* how _cleanup's removal of the extracted tree ends: shutil.rmtree removes
\* it; rmtree raises and rm -rf removes it; rmtree raises and rm -rf fails
\* too (its exit status is not looked at)
Removals == {"rmtree", "rm -rf", "failed"}

\* rootfs/extracted after _cleanup
cleanup_extracted(x, removal) == IF removal = "failed" THEN x ELSE "none"

\* variant: the tar file is not unlinked
cleanup_tarball_Kept(t, unlinked) == t

\* rootfs/image-rootfs.tar after _cleanup: tar_path.unlink(), whose
\* exception is swallowed
cleanup_tarball(t, unlinked) == IF unlinked THEN "none" ELSE t

\* podman rmi -f image_name, unless keep_image; the exit status is not
\* looked at
cleanup_images(imgs, image_name, keep_image, rmi_ok) ==
    IF keep_image \/ ~rmi_ok THEN imgs ELSE imgs \ {image_name}

\* the external commands _cleanup runs
cleanup_commands(x, removal) ==
    (IF x # "none"
     THEN <<"chmod", "setfacl">> \o (IF removal # "rmtree" THEN <<"rm -rf">> ELSE <<>>)
     ELSE <<>>)
    \o <<"rmi">>

\* the removals of _cleanup that did not remove
cleanup_failures(t, x, removal, unlinked, rmi_ok) ==
    (IF x # "none" /\ removal = "failed" THEN {"rm_failed"} ELSE {})
    \cup (IF t # "none" /\ ~unlinked THEN {"unlink_failed"} ELSE {})
    \cup (IF ~rmi_ok THEN {"rmi_failed"} ELSE {})

\* the ways one _cleanup can go
CleanupOutcomes == Removals \X BOOLEAN \X BOOLEAN

\* failures the code does not look at (a removal of _cleanup, podman rm -f,
\* a non-zero exit of tar) that the model follows in one behaviour
MaxFaults == 1

\* _cleanup(image_name) run on a working directory holding tarball t and
\* tree x, after the commands tr, the events ev and `faults` more ignored
\* failures of the step; o = <<removal, unlinked, rmi_ok>>
Cleanup(w, t, x, tr, ev, o, faults) ==
    /\ nfaults + faults <= MaxFaults
    /\ x = "none" => o[1] = "rmtree"     \* nothing to remove: one way to go
    /\ t = "none" => o[2]
    /\ nfaults + faults + Cardinality(cleanup_failures(t, x, o[1], o[2], o[3])) <= MaxFaults
    /\ nfaults' = nfaults + faults + Cardinality(cleanup_failures(t, x, o[1], o[2], o[3]))
    /\ tarball' = [tarball EXCEPT ![w] = cleanup_tarball(t, o[2])]
    /\ extracted' = [extracted EXCEPT ![w] = cleanup_extracted(x, o[1])]
    /\ images' = cleanup_images(images, call[w].image_name, FALSE, o[3])
    /\ trace' = [trace EXCEPT ![w] = tr \o cleanup_commands(x, o[1])]
    /\ events' = [events EXCEPT ![w] = ev \cup cleanup_failures(t, x, o[1], o[2], o[3])]

\* the step's "Pull failed / Export failed / Extract failed" print raised:
\* the except clause takes over before _cleanup or `return result` is reached
FailureReportRaises(w, t, x, tr, evs, faults) ==
    /\ nfaults + faults <= MaxFaults
    /\ nfaults' = nfaults + faults
    /\ result' = [result EXCEPT ![w] = WithError(@, "exception")]
    /\ events' = [events EXCEPT ![w] = @ \cup evs \cup {"raised"}]
    /\ tarball' = [tarball EXCEPT ![w] = t]
    /\ extracted' = [extracted EXCEPT ![w] = x]
    /\ trace' = [trace EXCEPT ![w] = tr]
    /\ pc' = [pc EXCEPT ![w] = ExceptionTarget]
    /\ UNCHANGED images

\* export or extraction failed: record the error, print it, _cleanup,
\* `return result`
FailStep(w, t, x, tr, error, evs, print_raises, o, faults) ==
    IF print_raises
    THEN FailureReportRaises(w, t, x, tr, evs, faults)
    ELSE /\ result' = [result EXCEPT ![w] = WithError(@, error)]
         /\ Cleanup(w, t, x, tr, events[w] \cup evs, o, faults)
         /\ pc' = [pc EXCEPT ![w] = EarlyReturnTarget]

AnalyzerInit(W) ==
    /\ pc = [w \in W |-> "idle"]
    /\ call = [w \in W |-> NoCall]
    /\ result = [w \in W |-> NoResult]
    /\ todo = [w \in W |-> <<>>]
    /\ checked = [w \in W |-> {}]
    /\ analyzed = [w \in W |-> EmptyDict]
    /\ \E left \in [W -> Leftovers] :
          /\ tarball = [w \in W |-> left[w][1]]
          /\ extracted = [w \in W |-> left[w][2]]
    /\ images = {}
    /\ containers = {}
    /\ trace = [w \in W |-> <<>>]
    /\ events = [w \in W |-> {}]
    /\ ret = [w \in W |-> NoResult]
    /\ got = [w \in W |-> NoResult]
    /\ first = [w \in W |-> EmptyDict]
    /\ ncalls = [w \in W |-> 0]
    /\ nfaults = 0

ledger_hit_Never(ledger, cache_key) == FALSE

\* `cache_key in self._analyzed_images`
ledger_hit(ledger, cache_key) == cache_key \in DOMAIN ledger

\* analyze_image(image_name, image_id): the ledger lookup
Call(w, image_name, image_id) ==
    LET cache_key == CacheKey(image_name, image_id)
    IN /\ pc[w] \in {"idle", "returned"}
       /\ ncalls[w] < MaxCalls
       /\ ncalls' = [ncalls EXCEPT ![w] = @ + 1]
       /\ call' = [call EXCEPT ![w] =
                     [image_name |-> image_name, image_id |-> image_id,
                      cache_key |-> cache_key,
                      repeat |-> cache_key \in DOMAIN first[w],
                      cached |-> ledger_hit(analyzed[w], cache_key)]]
       /\ trace' = [trace EXCEPT ![w] = <<>>]
       /\ events' = [events EXCEPT ![w] = {}]
       /\ todo' = [todo EXCEPT ![w] = <<>>]
       /\ checked' = [checked EXCEPT ![w] = {}]
       /\ IF ledger_hit(analyzed[w], cache_key)
          THEN /\ pc' = [pc EXCEPT ![w] = "returned"]
               /\ ret' = [ret EXCEPT ![w] = analyzed[w][cache_key]]
               /\ result' = [result EXCEPT ![w] = NoResult]
          ELSE /\ pc' = [pc EXCEPT ![w] = "pull"]
               /\ result' = [result EXCEPT ![w] = NewResult(image_name, image_id)]
               /\ ret' = [ret EXCEPT ![w] = NoResult]
       /\ UNCHANGED <<cvars, got, analyzed, tarball, extracted, images, containers, first, nfaults>>

\* analyze_image called by a caller other than analyze_images: the collector
\* is not involved
DirectCall(w, image_name, image_id) ==
    /\ Call(w, image_name, image_id)
    /\ UNCHANGED kvars

\* _pull_image: podman pull, exit code 0 or not (a timeout is -1)
Pull(w) ==
    /\ pc[w] = "pull"
    /\ \E ok \in BOOLEAN, print_raises \in BOOLEAN :
          IF ok
          THEN /\ images' = images \cup {call[w].image_name}
               /\ trace' = [trace EXCEPT ![w] = Append(@, "pull")]
               /\ pc' = [pc EXCEPT ![w] = "export"]
               /\ UNCHANGED <<result, events, tarball, extracted>>
          ELSE IF print_raises
          THEN FailureReportRaises(w, tarball[w], extracted[w], Append(trace[w], "pull"),
                                   {"pull_failed"}, 0)
          ELSE /\ result' = [result EXCEPT ![w] = WithError(@, "Failed to pull image")]
               /\ events' = [events EXCEPT ![w] = @ \cup {"pull_failed"}]
               /\ trace' = [trace EXCEPT ![w] = Append(@, "pull")]
               /\ pc' = [pc EXCEPT ![w] = EarlyReturnTarget]
               /\ UNCHANGED <<images, tarball, extracted>>
    /\ UNCHANGED <<cvars, kvars, got, call, todo, checked, analyzed, containers, ret, first, ncalls, nfaults>>

\* what podman export does to the tarball path: writes the image's
\* filesystem, fails leaving the path as it was or a partial file, or exits
\* 0 without writing anything
ExportOutcomes == {"written", "failed", "failed_partial", "nothing"}

rm_runs_OnSuccessOnly(exported) == exported \notin {"failed", "failed_partial"}

\* `podman rm -f <container_id>` is in the finally clause of the export's
\* try block: it runs however the export went
rm_runs(exported) == TRUE

\* the engine's stopped containers once analyzer w's new container has
\* been through _create_and_export_container: it is gone when podman rm -f
\* ran and removed it (the command's exit status is not looked at)
rm_container(cs, w, ran, removed) == IF ran /\ removed THEN cs ELSE cs \cup {w}

\* _create_and_export_container, with its finally: podman rm -f
Export(w) ==
    /\ pc[w] = "export"
    /\ \E created \in BOOLEAN, exported \in ExportOutcomes, removed \in BOOLEAN :
          LET t == IF ~created THEN tarball[w]
                   ELSE IF exported = "written" THEN call[w].image_name
                   ELSE IF exported = "failed_partial" THEN "partial"
                   ELSE tarball[w]
              ran == created /\ rm_runs(exported)
              tr == trace[w] \o <<"create">>
                             \o (IF created THEN <<"export">> ELSE <<>>)
                             \o (IF ran THEN <<"rm">> ELSE <<>>)
              left == IF ran /\ ~removed THEN {"container_rm_failed"} ELSE {}
              faults == IF ran /\ ~removed THEN 1 ELSE 0
          IN /\ ~created => removed          \* no container: one way to go
             /\ containers' = IF created
                              THEN rm_container(containers, w, ran, removed)
                              ELSE containers
             /\ ~created => exported = "failed"     \* no export is run
             /\ IF ~created
                THEN \E print_raises \in BOOLEAN, o \in CleanupOutcomes :
                        FailStep(w, t, extracted[w], tr, "Failed to create container",
                                 {"create_failed"}, print_raises, o, faults)
                ELSE IF exported \in {"failed", "failed_partial"}
                THEN \E print_raises \in BOOLEAN, o \in CleanupOutcomes :
                        FailStep(w, t, extracted[w], tr, "Failed to export container",
                                 {"export_failed"} \cup left, print_raises, o, faults)
                ELSE IF t = "none"
                THEN \E print_raises \in BOOLEAN, o \in CleanupOutcomes :
                        FailStep(w, t, extracted[w], tr, "Tar file was not created",
                                 {"tar_missing"} \cup left, print_raises, o, faults)
                ELSE /\ nfaults + faults <= MaxFaults
                     /\ nfaults' = nfaults + faults
                     /\ tarball' = [tarball EXCEPT ![w] = t]
                     /\ trace' = [trace EXCEPT ![w] = tr]
                     /\ events' = [events EXCEPT ![w] = @ \cup left]
                     /\ pc' = [pc EXCEPT ![w] = "extract"]
                     /\ UNCHANGED <<result, extracted, images>>
    /\ UNCHANGED <<cvars, kvars, got, call, todo, checked, analyzed, ret, first, ncalls>>

\* the exit codes of tar the model follows: success, an error, and
\* _run_command's -1 for a timeout
TarExitCodes == {0, 2, 0 - 1}

extract_succeeds_ByExitCode(exit_code, entries) == exit_code = 0 /\ entries # <<>>

\* file_count > 0: tar's exit code is not looked at
extract_succeeds(exit_code, entries) == entries # <<>>

\* what the run of tar leaves in the events of the call
tar_events(exit_code, entries) ==
    (IF exit_code # 0 THEN {"tar_nonzero"} ELSE {})
    \cup (IF entries # <<>> THEN {"entries_landed"} ELSE {})

\* _extract_tar, and on success the search for Java binaries
Extract(w) ==
    /\ pc[w] = "extract"
    /\ \E cleared \in BOOLEAN, landed \in BOOLEAN, exit_code \in TarExitCodes :
          IF extracted[w] # "none" /\ ~cleared
          THEN \* rmtree(ignore_errors=True) left the old tree: mkdir raises
               /\ exit_code = 0 /\ ~landed     \* tar is not run: one way to go
               /\ \E print_raises \in BOOLEAN, o \in CleanupOutcomes :
                     FailStep(w, tarball[w], extracted[w], trace[w], "Failed to extract tar",
                              {"extract_failed"}, print_raises, o, 0)
               /\ UNCHANGED todo
          ELSE LET x  == IF landed THEN tarball[w] ELSE "empty"
                   tr == trace[w] \o <<"tar", "chmod", "setfacl">>
                   ev == tar_events(exit_code, ExtractedEntries(x))
                   faults == IF exit_code # 0 THEN 1 ELSE 0
               IN IF ~extract_succeeds(exit_code, ExtractedEntries(x))
                  THEN /\ \E print_raises \in BOOLEAN, o \in CleanupOutcomes :
                             FailStep(w, tarball[w], x, tr,
                                      "Tar extraction produced no files",
                                      {"no_files"} \cup ev, print_raises, o, faults)
                       /\ UNCHANGED todo
                  ELSE /\ nfaults + faults <= MaxFaults
                       /\ nfaults' = nfaults + faults
                       /\ extracted' = [extracted EXCEPT ![w] = x]
                       /\ trace' = [trace EXCEPT ![w] = tr]
                       /\ events' = [events EXCEPT ![w] = @ \cup ev]
                       /\ pc' = [pc EXCEPT ![w] = "java"]
                       /\ todo' = [todo EXCEPT ![w] = found_paths(x, "java")]
                       /\ UNCHANGED <<result, tarball, images>>
    /\ UNCHANGED <<cvars, kvars, got, call, checked, analyzed, containers, ret, first, ncalls>>

\* the event of a family's probe exiting non-zero
ProbeFailed(family) ==
    IF family = "java" THEN "java_probe_failed"
    ELSE IF family = "node" THEN "node_probe_failed"
    ELSE "dotnet_probe_failed"

\* one iteration of `for java_path in java_paths` (and of the Node and .NET
\* loops): skip an excluded or already checked path, else probe, classify
\* and record
Examine(w) ==
    /\ pc[w] \in Families
    /\ todo[w] # <<>>
    /\ LET family         == pc[w]
           found_path     == Head(todo[w])
           container_path == RelPath(found_path, ExtractPath)
           resolved       == RealPathIn[extracted[w]][found_path]
       IN /\ todo' = [todo EXCEPT ![w] = Tail(@)]
          /\ IF is_excluded_path(container_path) \/ resolved \in checked[w]
             THEN UNCHANGED <<checked, result, trace, events>>
             ELSE \E output \in ProbeOutputsOf(call[w].image_name, family) :
                     /\ checked' = [checked EXCEPT ![w] = @ \cup {resolved}]
                     /\ trace' = [trace EXCEPT ![w] = Append(@, "run")]
                     /\ events' = [events EXCEPT ![w] =
                                     @ \cup (IF output.exit_code # 0
                                             THEN {"probe_failed", ProbeFailed(family)}
                                             ELSE {})]
                     /\ result' = [result EXCEPT ![w] =
                                     AppendBinary(@, family,
                                         BinaryInfoFor(family, container_path, output))]
    /\ UNCHANGED <<cvars, kvars, got, pc, call, analyzed, tarball, extracted, images, containers,
                   ret, first, ncalls, nfaults>>

NextStage(stage) ==
    IF stage = "java" THEN "node" ELSE IF stage = "node" THEN "dotnet" ELSE "report"

\* the end of one family's loop: the search for the next family's binaries,
\* or the report after the last
EndLoop(w) ==
    /\ pc[w] \in Families
    /\ todo[w] = <<>>
    /\ pc' = [pc EXCEPT ![w] = NextStage(@)]
    /\ checked' = [checked EXCEPT ![w] = {}]
    /\ todo' = [todo EXCEPT ![w] =
                  IF NextStage(pc[w]) \in Families
                  THEN found_paths(extracted[w], NextStage(pc[w]))
                  ELSE <<>>]
    /\ UNCHANGED <<cvars, kvars, got, call, result, analyzed, tarball, extracted, images, containers,
                   trace, events, ret, first, ncalls, nfaults>>

\* "Report findings": the prints after the loops
Report(w) ==
    /\ pc[w] = "report"
    /\ pc' = [pc EXCEPT ![w] = "finally"]
    /\ UNCHANGED <<cvars, kvars, got, call, result, todo, checked, analyzed, tarball, extracted, images,
                   containers, trace, events, ret, first, ncalls, nfaults>>

TrySteps == {"pull", "export", "extract", "report"} \cup Families

\* a statement of the try block raises (a print to a closed stdout, an
\* os.path call): `except Exception as e: result.error = str(e)`
Raise(w) ==
    /\ pc[w] \in TrySteps
    /\ result' = [result EXCEPT ![w] = WithError(@, "exception")]
    /\ events' = [events EXCEPT ![w] = @ \cup {"raised"}]
    /\ pc' = [pc EXCEPT ![w] = ExceptionTarget]
    /\ UNCHANGED <<cvars, kvars, got, call, todo, checked, analyzed, tarball, extracted, images,
                   containers, trace, ret, first, ncalls, nfaults>>

\* `finally: self._cleanup(image_name)`
Finally(w) ==
    /\ pc[w] \in {"finally", "finally_return"}
    /\ \E o \in CleanupOutcomes :
          Cleanup(w, tarball[w], extracted[w], trace[w], events[w], o, 0)
    /\ pc' = [pc EXCEPT ![w] = IF @ = "finally" THEN "cache" ELSE "return"]
    /\ UNCHANGED <<cvars, kvars, got, call, result, todo, checked, analyzed, containers, ret,
                   first, ncalls>>

\* what the caller receives, and the first result seen for the identity
Returns(w, r) ==
    /\ ret' = [ret EXCEPT ![w] = r]
    /\ first' = [first EXCEPT ![w] =
                   IF call[w].cache_key \in DOMAIN @ THEN @
                   ELSE Put(@, call[w].cache_key, r)]
    /\ pc' = [pc EXCEPT ![w] = "returned"]

\* self._analyzed_images[cache_key] = result; return result
CacheAndReturn(w) ==
    /\ pc[w] = "cache"
    /\ analyzed' = [analyzed EXCEPT ![w] = Put(@, call[w].cache_key, result[w])]
    /\ Returns(w, result[w])
    /\ UNCHANGED <<cvars, kvars, got, call, result, todo, checked, tarball, extracted, images,
                   containers, trace, events, ncalls, nfaults>>

\* the `return result` of a failed pull, export or extraction, once finally
\* has run
EarlyReturn(w) ==
    /\ pc[w] = "return"
    /\ Returns(w, result[w])
    /\ UNCHANGED <<cvars, kvars, got, call, result, todo, checked, analyzed, tarball, extracted, images,
                   containers, trace, events, ncalls, nfaults>>

\* no classifier call is under study while the analyzer runs
NoClassifierCall ==
    /\ cin = [family |-> "none", flavor |-> "Unknown", wellformed |-> FALSE,
              legacy |-> FALSE, comps |-> <<>>, version |-> Unknown]
    /\ cdone = FALSE
    /\ cverdict = FALSE

\* no result's aggregate properties are under study
NoResultRead ==
    /\ rin = NoResult
    /\ rflags = EmptyDict

\* no ImageCollector takes part
NoCollector ==
    /\ cluster = <<>>
    /\ collector = [namespace |-> <<>>, exclude_patterns |-> <<>>]
    /\ rows = <<>>
    /\ warnings = {}
    /\ kpc = "none"
    /\ unique_images = {}
    /\ results_cache = EmptyDict
    /\ csv = [filepath |-> FALSE, exists |-> FALSE, lines |-> <<>>]
    /\ requested = <<>>

Init == NoClassifierCall /\ NoResultRead /\ NoCollector /\ AnalyzerInit(Analyzers)

Next ==
    \E w \in Analyzers :
        \/ \E args \in CallArgs : DirectCall(w, args[1], args[2])
        \/ Pull(w)
        \/ Export(w)
        \/ Extract(w)
        \/ Examine(w)
        \/ EndLoop(w)
        \/ Report(w)
        \/ Raise(w)
        \/ Finally(w)
        \/ CacheAndReturn(w)
        \/ EarlyReturn(w)

Spec == Init /\ [][Next]_vars

-----------------------------------------------------------------------------
(* analyze_image and get_cached_result on one instance                      *)

\* get_cached_result(image_name, image_id): self._analyzed_images.get(cache_key),
\* None when the identity is not in the ledger
GetCachedResult(w, image_name, image_id) ==
    LET cache_key == CacheKey(image_name, image_id)
    IN /\ pc[w] \in {"idle", "returned"}
       /\ got' = [got EXCEPT ![w] =
                    IF cache_key \in DOMAIN analyzed[w] THEN analyzed[w][cache_key]
                    ELSE NoResult]
       /\ UNCHANGED <<cvars, kvars, pc, call, result, todo, checked, analyzed, tarball, extracted,
                      images, containers, trace, events, ret, first, ncalls, nfaults>>

LedgerNext ==
    \/ Next
    \/ \E w \in Analyzers : \E args \in CallArgs : GetCachedResult(w, args[1], args[2])

SpecLedger == Init /\ [][LedgerNext]_vars

-----------------------------------------------------------------------------
(* Two ImageAnalyzer instances, each with its own rootfs_path, run by two   *)
(* concurrent workers against the same container engine                     *)

Workers == {1, 2}

\* the images the workers are given
WorkerArgs == { <<"app", "">>, <<"tools", "">> }

\* two fresh instances on empty working directories, one call each
ConcurrentInit ==
    /\ NoCollector
    /\ NoClassifierCall
    /\ NoResultRead
    /\ pc = [w \in Workers |-> "idle"]
    /\ call = [w \in Workers |-> NoCall]
    /\ result = [w \in Workers |-> NoResult]
    /\ todo = [w \in Workers |-> <<>>]
    /\ checked = [w \in Workers |-> {}]
    /\ analyzed = [w \in Workers |-> EmptyDict]
    /\ tarball = [w \in Workers |-> "none"]
    /\ extracted = [w \in Workers |-> "none"]
    /\ images = {}
    /\ containers = {}
    /\ trace = [w \in Workers |-> <<>>]
    /\ events = [w \in Workers |-> {}]
    /\ ret = [w \in Workers |-> NoResult]
    /\ got = [w \in Workers |-> NoResult]
    /\ first = [w \in Workers |-> EmptyDict]
    /\ ncalls = [w \in Workers |-> MaxCalls - 1]
    /\ nfaults = 0

\* the steps of the two workers' calls, interleaved in any order
ConcurrentNext ==
    \E w \in Workers :
        \/ \E args \in WorkerArgs : DirectCall(w, args[1], args[2])
        \/ Pull(w)
        \/ Export(w)
        \/ Extract(w)
        \/ Examine(w)
        \/ EndLoop(w)
        \/ Report(w)
        \/ Raise(w)
        \/ Finally(w)
        \/ CacheAndReturn(w)
        \/ EarlyReturn(w)

SpecConcurrent == ConcurrentInit /\ [][ConcurrentNext]_vars

-----------------------------------------------------------------------------
(* analyze_image followed to its return                                     *)

\* the calls followed: an image with a JDK and one whose tree has a symlink
\* cycle
ReturnArgs == { <<"app", "">>, <<"cycle", "">> }

\* the steps a call in progress takes by itself: every command finishes or
\* reaches its timeout, and the walk is over a finite tree
Running(w) ==
    \/ Pull(w)
    \/ Export(w)
    \/ Extract(w)
    \/ Examine(w)
    \/ EndLoop(w)
    \/ Report(w)
    \/ Finally(w)
    \/ CacheAndReturn(w)
    \/ EarlyReturn(w)

ReturnsNext ==
    \E w \in Analyzers :
        \/ \E args \in ReturnArgs : DirectCall(w, args[1], args[2])
        \/ Pull(w)
        \/ Export(w)
        \/ Extract(w)
        \/ Examine(w)
        \/ EndLoop(w)
        \/ Report(w)
        \/ Raise(w)
        \/ Finally(w)
        \/ CacheAndReturn(w)
        \/ EarlyReturn(w)

\* a call that has started keeps running: the interpreter executes its next
\* statement, and _run_command bounds every command by its timeout
SpecReturns ==
    /\ Init
    /\ [][ReturnsNext]_vars
    /\ \A w \in Analyzers : WF_vars(Running(w))

-----------------------------------------------------------------------------
(* ImageCollector: collect_all over the objects the cluster serves          *)

Shop == <<"s", "h", "o", "p">>

OpenshiftEtcd == <<"o", "p", "e", "n", "s", "h", "i", "f", "t", "-", "e", "t", "c", "d">>

\* DEFAULT_EXCLUDE_NAMESPACE_PATTERNS = ["openshift-*", "kube-*"]
DEFAULT_EXCLUDE_NAMESPACE_PATTERNS ==
    << <<"o", "p", "e", "n", "s", "h", "i", "f", "t", "-", "*">>,
       <<"k", "u", "b", "e", "-", "*">> >>

\* fnmatch.fnmatch(name, pattern), for patterns of literal characters and "*"
RECURSIVE fnmatch(_, _)
fnmatch(name, pattern) ==
    IF pattern = <<>> THEN name = <<>>
    ELSE IF Head(pattern) = "*"
    THEN fnmatch(name, Tail(pattern)) \/ (name # <<>> /\ fnmatch(Tail(name), pattern))
    ELSE name # <<>> /\ Head(name) = Head(pattern) /\ fnmatch(Tail(name), Tail(pattern))

\* `sub in s` on strings
Contains(s, sub) ==
    \E i \in 0..(Len(s) - Len(sub)) : SubSeq(s, i + 1, i + Len(sub)) = sub

\* ImageCollector(client, None, namespace) and ImageCollector(client)
CollectorConfigs ==
    { [namespace |-> <<>>, exclude_patterns |-> DEFAULT_EXCLUDE_NAMESPACE_PATTERNS],
      [namespace |-> OpenshiftEtcd, exclude_patterns |-> <<>>] }

\* _is_namespace_excluded
is_namespace_excluded(config, namespace) ==
    \E i \in DOMAIN config.exclude_patterns : fnmatch(namespace, config.exclude_patterns[i])

Container(name, image) == [name |-> name, image |-> image]

Owner(kind, name) == [kind |-> kind, name |-> name]

Status(name, image, image_id) == [name |-> name, image |-> image, image_id |-> image_id]

\* an object as the API serves it: metadata, the pod template (or the pod's
\* own spec), spec.replicas, spec.selector.match_labels, metadata.labels,
\* the config.mirror annotation and the pod's status
Object(kind, namespace, name, owners, main_containers, init_containers, match_labels) ==
    [kind |-> kind, namespace |-> namespace, name |-> name,
     owner_references |-> owners, containers |-> main_containers,
     init_containers |-> init_containers, replicas |-> 1,
     match_labels |-> match_labels, labels |-> {}, mirror |-> FALSE,
     phase |-> "", statuses |-> <<>>]

PodObject(namespace, name, owners, main_containers, labels, phase, statuses) ==
    [Object("Pod", namespace, name, owners, main_containers, <<>>, {})
       EXCEPT !.labels = labels, !.phase = phase, !.statuses = statuses]

Web == <<"w", "e", "b">>
Web1 == <<"w", "e", "b", "-", "1">>
Web1a == <<"w", "e", "b", "-", "1", "-", "a">>
Tidy == <<"t", "i", "d", "y">>
Tidy1 == <<"t", "i", "d", "y", "-", "1">>
Tidy1a == <<"t", "i", "d", "y", "-", "1", "-", "a">>
Solo == <<"s", "o", "l", "o">>
Etcd == <<"e", "t", "c", "d">>
EtcdGuard == <<"e", "t", "c", "d", "-", "g", "u", "a", "r", "d", "-", "0">>
Cli == <<"c", "l", "i">>

\* the objects a studied cluster is made of, in the order the API lists them
ObjectPool ==
    << Object("Deployment", Shop, Web, {}, <<Container("app", "app")>>,
              <<Container("init", "tools")>>, {<<"app", "web">>}),
       Object("ReplicaSet", Shop, Web1, {Owner("Deployment", Web)},
              <<Container("app", "app")>>, <<Container("init", "tools")>>,
              {<<"app", "web">>}),
       PodObject(Shop, Web1a, {Owner("ReplicaSet", Web1)},
                 <<Container("app", "app"), Container("proxy", "net")>>,
                 {<<"app", "web">>}, "Running",
                 <<Status("app", "net", "sha256:1"), Status("proxy", "net", "")>>),
       Object("CronJob", Shop, Tidy, {}, <<Container("job", "tools")>>, <<>>, {}),
       Object("Job", Shop, Tidy1, {Owner("CronJob", Tidy)},
              <<Container("job", "tools")>>, <<>>, {}),
       PodObject(Shop, Tidy1a, {Owner("Job", Tidy1)}, <<Container("job", "tools")>>,
                 {<<"job-name", Tidy1>>}, "Succeeded", <<Status("job", "tools", "")>>),
       [Object("ReplicaSet", Shop, Solo, {}, <<Container("app", "app")>>, <<>>, {})
          EXCEPT !.replicas = 0],
       Object("Job", Shop, Solo, {}, <<Container("job", "tools")>>, <<>>, {}),
       PodObject(Shop, Cli, {}, <<Container("cli", "tools")>>, {}, "Running",
                 <<Status("cli", "net", "sha256:1")>>),
       Object("StatefulSet", OpenshiftEtcd, Etcd, {}, <<Container("etcd", "app")>>,
              <<>>, {<<"app", "etcd">>}),
       PodObject(OpenshiftEtcd, EtcdGuard, {}, <<Container("guard", "tools")>>, {},
                 "Running", <<>>),
       Object("DaemonSet", Shop, Solo, {}, <<Container("agent", "net")>>, <<>>, {}) >>

\* a studied cluster lacks at most this many objects of the pool
MaxAbsent == 2

\* the objects of the pool at the given positions, in the pool's order
RECURSIVE PickFrom(_, _, _)
PickFrom(pool, i, chosen) ==
    IF i > Len(pool) THEN <<>>
    ELSE (IF i \in chosen THEN <<pool[i]>> ELSE <<>>) \o PickFrom(pool, i + 1, chosen)

\* list_<kind>_for_all_namespaces / list_namespaced_<kind>(namespace)
ListKind(objs, config, kind) ==
    SelectSeq(objs, LAMBDA o :
        /\ o.kind = kind
        /\ config.namespace # <<>> => o.namespace = config.namespace)

\* variant: no object counts as owned
is_owned_by_Never(o, owner_kinds) == FALSE

\* _is_owned_by(metadata, owner_kinds)
is_owned_by(o, owner_kinds) ==
    \E ref \in o.owner_references : ref.kind \in owner_kinds

\* collect_from_pods: controller_kinds
controller_kinds ==
    {"ReplicaSet", "StatefulSet", "DaemonSet", "Job", "Deployment",
     "ReplicationController", "Node", "CatalogSource", "ConfigMap"}

\* collect_from_pods: skip_patterns
skip_patterns ==
    { <<"i", "n", "s", "t", "a", "l", "l", "e", "r", "-">>,
      <<"r", "e", "v", "i", "s", "i", "o", "n", "-", "p", "r", "u", "n", "e", "r", "-">>,
      <<"g", "u", "a", "r", "d", "-">>,
      <<"k", "u", "b", "e", "-", "r", "b", "a", "c", "-", "p", "r", "o", "x", "y", "-",
        "c", "r", "i", "o", "-">> }

\* the `continue` conditions of each collect_from_<kind> loop
Skipped(config, o) ==
    \/ is_namespace_excluded(config, o.namespace)
    \/ o.kind = "ReplicaSet" /\ (is_owned_by(o, {"Deployment"}) \/ o.replicas = 0)
    \/ o.kind = "Job" /\ is_owned_by(o, {"CronJob"})
    \/ o.kind = "Pod" /\ \/ is_owned_by(o, controller_kinds)
                         \/ o.mirror
                         \/ \E pattern \in skip_patterns : Contains(o.name, pattern)

\* the image per container name in a status list; first_wins says whether the
\* first or the last status of a name wins
StatusImages(statuses, first_wins) ==
    LET named == { i \in DOMAIN statuses : statuses[i].image # "" }
        names == { statuses[i].name : i \in named }
        Pick(n) == LET at == { i \in named : statuses[i].name = n }
                       i == CHOOSE i \in at : \A j \in at : IF first_wins THEN i <= j ELSE i >= j
                   IN statuses[i].image
    IN [n \in names |-> Pick(n)]

\* image_id_map of collect_from_pods
StatusImageIds(statuses) ==
    LET named == { i \in DOMAIN statuses : statuses[i].image_id # "" }
        names == { statuses[i].name : i \in named }
        Pick(n) == LET at == { i \in named : statuses[i].name = n }
                       i == CHOOSE i \in at : \A j \in at : i >= j
                   IN statuses[i].image_id
    IN [n \in names |-> Pick(n)]

\* the first pod of the list whose statuses name an image
RECURSIVE FirstStatusImages(_)
FirstStatusImages(pods) ==
    IF pods = <<>> THEN EmptyDict
    ELSE IF StatusImages(Head(pods).statuses, TRUE) # EmptyDict
    THEN StatusImages(Head(pods).statuses, TRUE)
    ELSE FirstStatusImages(Tail(pods))

\* _get_resolved_images_from_pods(namespace, label_selector); listed says
\* whether list_namespaced_pod answered
get_resolved_images_from_pods(objs, namespace, match_labels, listed) ==
    LET pods == SelectSeq(objs, LAMBDA o :
                    /\ o.kind = "Pod"
                    /\ o.namespace = namespace
                    /\ match_labels \subseteq o.labels)
        running == SelectSeq(pods, LAMBDA o : o.phase = "Running")
    IN IF ~listed THEN EmptyDict
       ELSE IF FirstStatusImages(running) # EmptyDict THEN FirstStatusImages(running)
       ELSE FirstStatusImages(pods)

\* a column's text
Text(s) == [text |-> s, parts |-> <<>>]

\* the analysis columns of a row nobody has analyzed
NoAnalysis ==
    [java_binary |-> Text(""), java_version |-> Text(""), java_compatible |-> Text(""),
     node_binary |-> Text(""), node_version |-> Text(""), node_compatible |-> Text(""),
     dotnet_binary |-> Text(""), dotnet_version |-> Text(""),
     dotnet_compatible |-> Text(""), analysis_error |-> Text("")]

\* ContainerImageInfo(...)
ContainerImageInfo(container_name, image_name, namespace, image_id, object_type, object_name) ==
    [container_name |-> container_name, image_name |-> image_name,
     namespace |-> namespace, image_id |-> image_id, object_type |-> object_type,
     object_name |-> object_name, analysis |-> NoAnalysis]

DictGet(d, k, dflt) == IF k \in DOMAIN d THEN d[k] ELSE dflt

\* _add_container_info
RECURSIVE add_container_info(_, _, _, _, _, _, _)
add_container_info(acc, all_containers, namespace, object_type, object_name, image_id_map, resolved_image_map) ==
    IF all_containers = <<>> THEN acc
    ELSE LET container == Head(all_containers)
             resolved_image == DictGet(resolved_image_map, container.name, "")
             image_name == IF resolved_image # "" /\ resolved_image # container.image
                           THEN resolved_image ELSE container.image
         IN add_container_info(
                Append(acc, ContainerImageInfo(container.name, image_name, namespace,
                           DictGet(image_id_map, container.name, ""), object_type,
                           object_name)),
                Tail(all_containers), namespace, object_type, object_name, image_id_map,
                resolved_image_map)

\* the label selector a controller's pods are looked up with
SelectorOf(o) ==
    IF o.kind = "Job" THEN {<<"job-name", o.name>>}
    ELSE IF o.kind = "CronJob" THEN {}
    ELSE o.match_labels

\* the body of a collect_from_<kind> loop for one listed object
CollectOne(acc, objs, config, o, listed) ==
    IF Skipped(config, o) THEN acc
    ELSE add_container_info(
             acc, o.containers \o o.init_containers, o.namespace, o.kind, o.name,
             IF o.kind = "Pod" THEN StatusImageIds(o.statuses) ELSE EmptyDict,
             IF o.kind = "Pod" THEN StatusImages(o.statuses, FALSE)
             ELSE IF SelectorOf(o) = {} THEN EmptyDict
             ELSE get_resolved_images_from_pods(objs, o.namespace, SelectorOf(o), listed))

RECURSIVE CollectEach(_, _, _, _, _)
CollectEach(acc, objs, config, items, listed) ==
    IF items = <<>> THEN acc
    ELSE CollectEach(CollectOne(acc, objs, config, Head(items), listed), objs, config,
                     Tail(items), listed)

\* collect_all's calls, in order
CollectOrder ==
    <<"Deployment", "StatefulSet", "DaemonSet", "CronJob", "ReplicaSet", "Job", "Pod">>

StageAfter(kind) ==
    IF kind = "Pod" THEN "collected"
    ELSE LET i == CHOOSE i \in DOMAIN CollectOrder : CollectOrder[i] = kind
         IN CollectOrder[i + 1]

\* collect_from_<kind>: the list call answers (ok) or raises, and the except
\* clause prints the warning; listed says whether the pod lookups answered
CollectFrom(kind) ==
    /\ kpc = kind
    /\ \E ok \in BOOLEAN, listed \in BOOLEAN :
          IF ok
          THEN /\ rows' = CollectEach(rows, cluster, collector,
                                      ListKind(cluster, collector, kind), listed)
               /\ UNCHANGED warnings
          ELSE /\ listed
               /\ warnings' = warnings \cup {kind}
               /\ UNCHANGED rows
    /\ kpc' = StageAfter(kind)
    /\ UNCHANGED <<cvars, avars, cluster, collector, unique_images, results_cache, csv,
                   requested>>

\* collect_all: `self.images = []`
collect_all ==
    /\ kpc = "constructed"
    /\ rows' = <<>>
    /\ warnings' = {}
    /\ kpc' = "Deployment"
    /\ UNCHANGED <<cvars, avars, cluster, collector, unique_images, results_cache, csv,
                   requested>>

collect_from_deployments == CollectFrom("Deployment")

collect_from_statefulsets == CollectFrom("StatefulSet")

collect_from_daemonsets == CollectFrom("DaemonSet")

collect_from_cronjobs == CollectFrom("CronJob")

collect_from_replicasets == CollectFrom("ReplicaSet")

collect_from_jobs == CollectFrom("Job")

collect_from_pods == CollectFrom("Pod")

\* a collector has been constructed over some cluster
CollectInit ==
    /\ NoClassifierCall
    /\ NoResultRead
    /\ AnalyzerInit(Analyzers)
    /\ \A w \in Analyzers : tarball[w] = "none" /\ extracted[w] = "none"
    /\ \E absent \in SUBSET DOMAIN ObjectPool :
          /\ Cardinality(absent) <= MaxAbsent
          /\ cluster = PickFrom(ObjectPool, 1, DOMAIN ObjectPool \ absent)
    /\ collector \in CollectorConfigs
    /\ rows = <<>>
    /\ warnings = {}
    /\ kpc = "constructed"
    /\ unique_images = {}
    /\ results_cache = EmptyDict
    /\ csv = [filepath |-> FALSE, exists |-> FALSE, lines |-> <<>>]
    /\ requested = <<>>

CollectNext ==
    \/ collect_all
    \/ collect_from_deployments
    \/ collect_from_statefulsets
    \/ collect_from_daemonsets
    \/ collect_from_cronjobs
    \/ collect_from_replicasets
    \/ collect_from_jobs
    \/ collect_from_pods

SpecCollect == CollectInit /\ [][CollectNext]_vars

-----------------------------------------------------------------------------
(* ImageCollector.analyze_images over the collected rows                    *)

\* "; ".join(parts): the joined text, kept as its parts
Joined(parts) == [text |-> "joined", parts |-> parts]

\* ImageAnalysisResult.java_found / node_found / dotnet_found
found(binaries) ==
    IF binaries = <<>> THEN Text("None")
    ELSE Joined([i \in DOMAIN binaries |-> binaries[i].path])

\* ImageAnalysisResult.java_versions / node_versions / dotnet_versions
versions(binaries) ==
    IF binaries = <<>> THEN Text("None")
    ELSE Joined([i \in DOMAIN binaries |-> binaries[i].version])

\* the ten assignments of the update loop
AnalysisOf(r) ==
    [java_binary |-> found(r.java_binaries),
     java_version |-> versions(r.java_binaries),
     java_compatible |-> Text(java_compatible(r)),
     node_binary |-> found(r.node_binaries),
     node_version |-> versions(r.node_binaries),
     node_compatible |-> Text(node_compatible(r)),
     dotnet_binary |-> found(r.dotnet_binaries),
     dotnet_version |-> versions(r.dotnet_binaries),
     dotnet_compatible |-> Text(dotnet_compatible(r)),
     analysis_error |-> Text(IF r.error = NoError THEN "" ELSE r.error)]

\* variant: every row takes the result of the image analyzed last
result_for_Latest(cache, latest, image_name) == latest

\* `results_cache.get(img.image_name)`, None standing for no result
result_for(cache, latest, image_name) == DictGet(cache, image_name, NoResult)

\* the update loop over self.images
update_rows(imgs, cache, latest) ==
    [i \in DOMAIN imgs |->
        IF imgs[i].image_name \in DOMAIN cache
        THEN [imgs[i] EXCEPT !.analysis =
                 AnalysisOf(result_for(cache, latest, imgs[i].image_name))]
        ELSE imgs[i]]

\* ContainerImageInfo.to_dict
to_dict(img) ==
    [container_name |-> img.container_name, namespace |-> img.namespace,
     object_type |-> img.object_type, object_name |-> img.object_name,
     image_name |-> img.image_name, image_id |-> img.image_id,
     java_binary |-> img.analysis.java_binary,
     java_version |-> img.analysis.java_version,
     java_cgroup_v2_compatible |-> img.analysis.java_compatible,
     node_binary |-> img.analysis.node_binary,
     node_version |-> img.analysis.node_version,
     node_cgroup_v2_compatible |-> img.analysis.node_compatible,
     dotnet_binary |-> img.analysis.dotnet_binary,
     dotnet_version |-> img.analysis.dotnet_version,
     dotnet_cgroup_v2_compatible |-> img.analysis.dotnet_compatible,
     analysis_error |-> img.analysis.analysis_error]

\* to_dataframe
to_dataframe(imgs) == [i \in DOMAIN imgs |-> to_dict(imgs[i])]

\* variant: the progress file holds every row
df_analyzed_All(df, analyzed_image_names) == df

\* df[df['image_name'].isin(analyzed_image_names)]
df_analyzed(df, analyzed_image_names) ==
    SelectSeq(df, LAMBDA line : line.image_name \in analyzed_image_names)

\* no CSV file yet; filepath says whether cluster_name was given
NoCsv(filepath) == [filepath |-> filepath, exists |-> FALSE, lines |-> <<>>]

\* df.to_csv(csv_filepath, index=False), when there is a csv_filepath
to_csv(file, df) ==
    IF file.filepath THEN [file EXCEPT !.exists = TRUE, !.lines = df] ELSE file

\* collect_all with every list call answering
RECURSIVE CollectKinds(_, _, _, _)
CollectKinds(acc, objs, config, kinds) ==
    IF kinds = <<>> THEN acc
    ELSE CollectKinds(
             CollectEach(acc, objs, config, ListKind(objs, config, Head(kinds)), TRUE),
             objs, config, Tail(kinds))

\* the clusters analyze_images is studied on, as positions of the pool: a
\* Deployment; a Deployment and a CronJob; a CronJob and a standalone Job
AnalyzedClusters == { {1}, {1, 4}, {4, 8} }

\* analyze_images up to the loop: the analyzer, unique_images, csv_filepath
analyze_images ==
    /\ kpc = "collected"
    /\ unique_images' = { rows[i].image_name : i \in DOMAIN rows }
    /\ \E cluster_name \in BOOLEAN : csv' = NoCsv(cluster_name)
    /\ results_cache' = EmptyDict
    /\ requested' = <<>>
    /\ kpc' = "loop"
    /\ UNCHANGED <<cvars, avars, cluster, collector, rows, warnings>>

\* the loop takes the next image name of the set and calls analyze_image
AnalyzeImage(w) ==
    /\ kpc = "loop"
    /\ \E image_name \in unique_images :
          /\ Call(w, image_name, "")
          /\ unique_images' = unique_images \ {image_name}
          /\ requested' = Append(requested, image_name)
    /\ kpc' = "analyzing"
    /\ UNCHANGED <<cluster, collector, rows, warnings, results_cache, csv>>

\* analyze_image has returned: results_cache, the update loop, the progress
\* save
UpdateRows(w) ==
    /\ kpc = "analyzing"
    /\ pc[w] = "returned"
    /\ LET cache == Put(results_cache, requested[Len(requested)], ret[w])
           updated == update_rows(rows, cache, ret[w])
       IN /\ results_cache' = cache
          /\ rows' = updated
          /\ csv' = to_csv(csv, df_analyzed(to_dataframe(updated), DOMAIN cache))
    /\ kpc' = "loop"
    /\ UNCHANGED <<cvars, avars, cluster, collector, warnings, unique_images, requested>>

\* the loop is over: the final save with all rows
FinalSave ==
    /\ kpc = "loop"
    /\ unique_images = {}
    /\ csv' = to_csv(csv, to_dataframe(rows))
    /\ kpc' = "done"
    /\ UNCHANGED <<cvars, avars, cluster, collector, rows, warnings, unique_images,
                   results_cache, requested>>

\* collect_all has run on a studied cluster
AnalyzeImagesInit ==
    /\ NoClassifierCall
    /\ NoResultRead
    /\ AnalyzerInit(Analyzers)
    /\ \E present \in AnalyzedClusters : cluster = PickFrom(ObjectPool, 1, present)
    /\ collector = [namespace |-> <<>>,
                    exclude_patterns |-> DEFAULT_EXCLUDE_NAMESPACE_PATTERNS]
    /\ rows = CollectKinds(<<>>, cluster, collector, CollectOrder)
    /\ warnings = {}
    /\ kpc = "collected"
    /\ unique_images = {}
    /\ results_cache = EmptyDict
    /\ csv = NoCsv(FALSE)
    /\ requested = <<>>

AnalyzeImagesNext ==
    \/ analyze_images
    \/ FinalSave
    \/ \E w \in Analyzers :
          \/ AnalyzeImage(w)
          \/ UpdateRows(w)
          \/ Pull(w)
          \/ Export(w)
          \/ Extract(w)
          \/ Examine(w)
          \/ EndLoop(w)
          \/ Report(w)
          \/ Raise(w)
          \/ Finally(w)
          \/ CacheAndReturn(w)
          \/ EarlyReturn(w)

SpecAnalyzeImages == AnalyzeImagesInit /\ [][AnalyzeImagesNext]_vars

-----------------------------------------------------------------------------
(* analyze_image from the extraction on, over a wider set of trees          *)

\* the export of an image has just been written
LocateInit ==
    /\ NoCollector
    /\ NoClassifierCall
    /\ NoResultRead
    /\ \E image \in LocatorImages :
          /\ call = [w \in Analyzers |->
                       [image_name |-> image, image_id |-> "", cache_key |-> image,
                        repeat |-> FALSE, cached |-> FALSE]]
          /\ result = [w \in Analyzers |-> NewResult(image, "")]
          /\ tarball = [w \in Analyzers |-> image]
          /\ images = {image}
    /\ pc = [w \in Analyzers |-> "extract"]
    /\ todo = [w \in Analyzers |-> <<>>]
    /\ checked = [w \in Analyzers |-> {}]
    /\ analyzed = [w \in Analyzers |-> EmptyDict]
    /\ extracted = [w \in Analyzers |-> "none"]
    /\ containers = {}
    /\ trace = [w \in Analyzers |-> <<"pull", "create", "export", "rm">>]
    /\ events = [w \in Analyzers |-> {}]
    /\ ret = [w \in Analyzers |-> NoResult]
    /\ got = [w \in Analyzers |-> NoResult]
    /\ first = [w \in Analyzers |-> EmptyDict]
    /\ ncalls = [w \in Analyzers |-> 1]
    /\ nfaults = 0

\* the images of the two workers whose probes are compared
ProbedImages == {"app", "net"}

\* two instances, each with the export of its image just written
ProbesInit ==
    /\ NoCollector
    /\ NoClassifierCall
    /\ NoResultRead
    /\ \E image \in [Workers -> ProbedImages] :
          /\ call = [w \in Workers |->
                       [image_name |-> image[w], image_id |-> "", cache_key |-> image[w],
                        repeat |-> FALSE, cached |-> FALSE]]
          /\ result = [w \in Workers |-> NewResult(image[w], "")]
          /\ tarball = [w \in Workers |-> image[w]]
          /\ images = { image[w] : w \in Workers }
    /\ pc = [w \in Workers |-> "extract"]
    /\ todo = [w \in Workers |-> <<>>]
    /\ checked = [w \in Workers |-> {}]
    /\ analyzed = [w \in Workers |-> EmptyDict]
    /\ extracted = [w \in Workers |-> "none"]
    /\ containers = {}
    /\ trace = [w \in Workers |-> <<"pull", "create", "export", "rm">>]
    /\ events = [w \in Workers |-> {}]
    /\ ret = [w \in Workers |-> NoResult]
    /\ got = [w \in Workers |-> NoResult]
    /\ first = [w \in Workers |-> EmptyDict]
    /\ ncalls = [w \in Workers |-> 1]
    /\ nfaults = 0

ProbesNext ==
    \E w \in Workers :
        \/ Extract(w)
        \/ Examine(w)
        \/ EndLoop(w)
        \/ Report(w)
        \/ Finally(w)
        \/ CacheAndReturn(w)
        \/ EarlyReturn(w)

SpecProbes == ProbesInit /\ [][ProbesNext]_vars

LocateNext ==
    \E w \in Analyzers :
        \/ Extract(w)
        \/ Examine(w)
        \/ EndLoop(w)
        \/ Report(w)
        \/ Finally(w)
        \/ CacheAndReturn(w)
        \/ EarlyReturn(w)

SpecLocate == LocateInit /\ [][LocateNext]_vars

-----------------------------------------------------------------------------
(* The classifiers as a state machine: one call, then its return            *)

ClassifyInit ==
    /\ NoCollector
    /\ AnalyzerInit({})
    /\ NoResultRead
    /\ cin \in ClassifierCalls
    /\ cdone = FALSE
    /\ cverdict = FALSE

CheckJava ==
    /\ ~cdone
    /\ cin.family = "java"
    /\ cverdict' = check_java_compatibility(cin.version, cin.flavor)
    /\ cdone' = TRUE
    /\ UNCHANGED <<cin, rin, rflags, avars, kvars>>

CheckNode ==
    /\ ~cdone
    /\ cin.family = "node"
    /\ cverdict' = check_node_compatibility(cin.version)
    /\ cdone' = TRUE
    /\ UNCHANGED <<cin, rin, rflags, avars, kvars>>

CheckDotnet ==
    /\ ~cdone
    /\ cin.family = "dotnet"
    /\ cverdict' = check_dotnet_compatibility(cin.version)
    /\ cdone' = TRUE
    /\ UNCHANGED <<cin, rin, rflags, avars, kvars>>

ClassifyNext == CheckJava \/ CheckNode \/ CheckDotnet

SpecClassify == ClassifyInit /\ [][ClassifyNext]_vars

-----------------------------------------------------------------------------
(* The aggregate properties of a result, read one after the other           *)

\* binaries recorded per family in the results under study
MaxBinaries == 2

\* a BinaryInfo of the family with the verdict its classifier gave
RecordedBinary(family, compatible) ==
    [path |-> <<"usr", "bin", BinaryName(family)>>,
     version |-> IF compatible THEN <<"2", "1", ".", "0", ".", "0">> ELSE Unknown,
     version_output |-> <<>>,
     is_compatible |-> compatible,
     runtime_type |-> IF family = "java" THEN "OpenJDK"
                      ELSE IF family = "node" THEN "NodeJS" ELSE ".NET"]

RECURSIVE BinaryLists(_, _)
BinaryLists(family, n) ==
    IF n = 0 THEN {<<>>}
    ELSE BinaryLists(family, n - 1)
         \cup { Append(l, RecordedBinary(family, c)) :
                  l \in { k \in BinaryLists(family, n - 1) : Len(k) = n - 1 },
                  c \in BOOLEAN }

\* results as analyze_image leaves them: up to MaxBinaries binaries per family
StudiedResults ==
    { [NewResult("app", "") EXCEPT !.java_binaries = j, !.node_binaries = n,
                                   !.dotnet_binaries = d] :
        j \in BinaryLists("java", MaxBinaries),
        n \in BinaryLists("node", MaxBinaries),
        d \in BinaryLists("dotnet", MaxBinaries) }

FlagsInit ==
    /\ NoCollector
    /\ AnalyzerInit({})
    /\ NoClassifierCall
    /\ rin \in StudiedResults
    /\ rflags = EmptyDict

\* result.java_compatible is read
ReadJavaCompatible ==
    /\ "java" \notin DOMAIN rflags
    /\ rin \in StudiedResults
    /\ rflags' = Put(rflags, "java", java_compatible(rin))
    /\ UNCHANGED <<cin, cdone, cverdict, rin, avars, kvars>>

\* result.node_compatible is read
ReadNodeCompatible ==
    /\ "node" \notin DOMAIN rflags
    /\ rin \in StudiedResults
    /\ rflags' = Put(rflags, "node", node_compatible(rin))
    /\ UNCHANGED <<cin, cdone, cverdict, rin, avars, kvars>>

\* result.dotnet_compatible is read
ReadDotnetCompatible ==
    /\ "dotnet" \notin DOMAIN rflags
    /\ rin \in StudiedResults
    /\ rflags' = Put(rflags, "dotnet", dotnet_compatible(rin))
    /\ UNCHANGED <<cin, cdone, cverdict, rin, avars, kvars>>

FlagsNext == ReadJavaCompatible \/ ReadNodeCompatible \/ ReadDotnetCompatible

SpecFlags == FlagsInit /\ [][FlagsNext]_vars

-----------------------------------------------------------------------------
(* Properties of the classifiers                                            *)

Range(s) == { s[i] : i \in DOMAIN s }

\* the major, minor and update numbers the version under study was written
\* from, and the fourth component of its written form ("1." counts as the
\* first component of a legacy spelling)
WrittenMajor == cin.comps[1]

WrittenMinor == IF Len(cin.comps) >= 2 THEN cin.comps[2] ELSE 0

WrittenUpdate == IF Len(cin.comps) >= 3 THEN cin.comps[3] ELSE 0

WrittenFourth ==
    IF cin.legacy
    THEN (IF Len(cin.comps) >= 3 THEN cin.comps[3] ELSE -1)
    ELSE (IF Len(cin.comps) >= 4 THEN cin.comps[4] ELSE -1)

JavaCallReturned == cdone /\ cin.family = "java" /\ cin.wellformed

\* the dot-separated components of version, as written and after the Java
\* normalisation, that are digit strings or that int() accepts
NumericComponents(version) ==
    { c \in Range(StrSplit(version, ".")) \cup Range(StrSplit(NormalizeVersion(version), ".")) :
        IsDigit(c) \/ ~IntRaises(c) }

\* C6: fail-closed. Each classifier (Java with any flavor, Node, .NET)
\* returns false for every version string none of whose dot-separated
\* components is numeric, the sentinel "unknown" included; and every
\* BinaryInfo built from a probe output whose version is "unknown" has
\* is_compatible = false.
C6_FailClosed ==
    /\ (cdone /\ NumericComponents(cin.version) = {}) => ~cverdict
    /\ \A family \in Families : \A output \in ProbeOutputs(family) :
          LET info == BinaryInfoFor(family, <<"usr", "bin", BinaryName(family)>>, output)
          IN info.version = Unknown => ~info.is_compatible

C6_Witness ==
    /\ cdone
    /\ cin.version = Unknown
    /\ cin.family = "node"
    /\ ~cverdict
    /\ \E output \in JavaProbeOutputs : JavaVersion(output) = Unknown

\* C7: for flavor IBM Semeru, major 17 is compatible iff minor > 0 or
\* update >= 4, and major 18 iff minor > 0 or update >= 2; so 17.0.3 and
\* 18.0.1 are incompatible.
C7_SemeruMinimums ==
    (JavaCallReturned /\ cin.flavor = "IBM Semeru" /\ WrittenMajor \in {17, 18})
        => (cverdict <=> (\/ WrittenMinor > 0
                          \/ WrittenUpdate >= (IF WrittenMajor = 17 THEN 4 ELSE 2)))

C9_Java9To14 ==
    (JavaCallReturned /\ WrittenMajor \in 9..14)
        => (cverdict <=> (WrittenMajor = 11 /\ (WrittenMinor > 0 \/ WrittenUpdate >= 16)))

\* "11.0.16" has been classified compatible
C9_Witness ==
    /\ JavaCallReturned
    /\ cin.version = <<"1", "1", ".", "0", ".", "1", "6">>
    /\ cin.flavor = "OpenJDK"
    /\ cverdict

\* C10: for the OpenJDK and HotSpot flavors, every Java version whose real
\* major is below 8 ("1.7.0_80", "1.6.0_45", "7.0.1") is classified
\* incompatible.
C10_BelowJava8Rejected ==
    (JavaCallReturned /\ cin.flavor \in {"OpenJDK", "HotSpot"} /\ WrittenMajor < 8)
        => ~cverdict

\* how many dot-separated components of version int() accepts
IntegerComponentCount(version) ==
    LET comps == StrSplit(version, ".")
    IN Cardinality({ i \in 1..Len(comps) : ~IntRaises(comps[i]) })

\* C11: the Node classifier rejects a version with fewer than three
\* dot-separated integer components; a dotted version of three or more
\* numbers is compatible iff major > 20 or (major = 20 and minor >= 3),
\* whatever its patch number.
C11_NodeRule ==
    (cdone /\ cin.family = "node")
        => /\ IntegerComponentCount(cin.version) < 3 => ~cverdict
           /\ (cin.wellformed /\ Len(cin.comps) >= 3)
                 => (cverdict <=> (\/ WrittenMajor > 20
                                   \/ (WrittenMajor = 20 /\ WrittenMinor >= 3)))

\* "20.3.0" has been classified compatible
C11_Witness ==
    /\ cdone
    /\ cin.family = "node"
    /\ cin.version = <<"2", "0", ".", "3", ".", "0">>
    /\ cverdict

\* C12: the .NET classifier rejects a version with fewer than two
\* dot-separated integer components; a dotted version of two or more numbers
\* is compatible iff major >= 5, whatever its minor and patch numbers.
C12_DotnetRule ==
    (cdone /\ cin.family = "dotnet")
        => /\ IntegerComponentCount(cin.version) < 2 => ~cverdict
           /\ (cin.wellformed /\ Len(cin.comps) >= 2)
                 => (cverdict <=> WrittenMajor >= 5)

\* "8.0.122" has been classified compatible
C12_Witness ==
    /\ cdone
    /\ cin.family = "dotnet"
    /\ cin.version = <<"8", ".", "0", ".", "1", "2", "2">>
    /\ cverdict

-----------------------------------------------------------------------------
(* Properties of the aggregate flags                                        *)

BinariesOf(r, family) ==
    IF family = "java" THEN r.java_binaries
    ELSE IF family = "node" THEN r.node_binaries
    ELSE r.dotnet_binaries

\* C13: per family, the aggregate compatibility flag of a result is "N/A"
\* iff no binary of the family was recorded; otherwise it is "Yes" iff every
\* recorded binary of the family is compatible, and one incompatible binary
\* makes it "No".
C13_AggregateFlag ==
    \A f \in DOMAIN rflags :
        LET recorded == Range(BinariesOf(rin, f))
        IN /\ rflags[f] \in {"N/A", "Yes", "No"}
           /\ rflags[f] = "N/A" <=> recorded = {}
           /\ recorded # {}
                 => /\ rflags[f] = "Yes" <=> \A b \in recorded : b.is_compatible
                    /\ (\E b \in recorded : ~b.is_compatible) => rflags[f] = "No"

\* a result with one compatible and one incompatible Java binary has been
\* read as "No"
C13_Witness ==
    /\ "java" \in DOMAIN rflags
    /\ Len(rin.java_binaries) = 2
    /\ rin.java_binaries[1].is_compatible
    /\ ~rin.java_binaries[2].is_compatible
    /\ rflags["java"] = "No"

-----------------------------------------------------------------------------
(* Properties of the locator and of the deduplication                       *)

\* the file a path names inside the container, whose root is the image's
\* own tree
InterpreterAt(image, container_path) == Resolve(ImageTree(image), container_path)

\* the regular files of the image that a name of the family reaches
InterpretersOf(image, family) ==
    { InterpreterAt(image, p) :
        p \in { q \in Paths(ImageTree(image)) :
                  /\ BaseName(q) = BinaryName(family)
                  /\ InterpreterAt(image, q) # Broken
                  /\ IsFile(ImageTree(image), q) } }

\* the recorded binaries of the family whose probe ran the given file
ProbesOf(r, image, family, interpreter) ==
    { i \in DOMAIN BinariesOf(r, family) :
        InterpreterAt(image, BinariesOf(r, family)[i].path) = interpreter }

\* the three family loops of analyzer w's call are over
LoopsDone(w) == pc[w] \in {"report", "finally", "cache", "returned"} /\ "raised" \notin events[w]

\* C14: deduplication. Within one analysis and one family, an interpreter
\* file reachable under several matching names (itself and links to it,
\* through file or directory links) and not itself under an excluded prefix
\* is probed exactly once and yields exactly one BinaryInfo.
C14_ProbedExactlyOnce ==
    \A w \in DOMAIN pc :
        (LoopsDone(w) /\ "tar" \in Range(trace[w]))
            => \A family \in Families :
                 \A f \in InterpretersOf(extracted[w], family) :
                    ~is_excluded_path(f)
                        => Cardinality(ProbesOf(result[w], extracted[w], family, f)) = 1

\* a marker of the flavor occurs in the banner: the IBM and OpenJDK markers
\* in any letter case, HotSpot as written
HasMarker(b, flavor) ==
    LET m == b.version_output.markers
    IN IF flavor = "IBM Semeru" THEN m \cap {"IBM Semeru", "ibm semeru"} # {}
       ELSE IF flavor = "IBM Java"
            THEN m \cap {"IBM J9", "ibm j9", "IBM SDK", "ibm sdk"} # {}
       ELSE IF flavor = "OpenJDK" THEN m \cap {"OpenJDK", "openjdk"} # {}
       ELSE "HotSpot" \in m

FlavorPriority == <<"IBM Semeru", "IBM Java", "OpenJDK", "HotSpot">>

\* C16: the flavor of every recorded Java binary is that of the marker of
\* highest priority in its banner, in the order IBM Semeru, IBM Java,
\* OpenJDK, HotSpot; a banner with none of them gives "Unknown", and an
\* "Unknown" binary has the verdict the generic (non-IBM) rules give its
\* version.
C16_FlavorPriority ==
    \A w \in DOMAIN pc :
        \A i \in DOMAIN result[w].java_binaries :
            LET b == result[w].java_binaries[i]
            IN /\ \A k \in DOMAIN FlavorPriority :
                    (HasMarker(b, FlavorPriority[k])
                     /\ \A j \in 1..(k - 1) : ~HasMarker(b, FlavorPriority[j]))
                        => b.runtime_type = FlavorPriority[k]
               /\ (\A k \in DOMAIN FlavorPriority : ~HasMarker(b, FlavorPriority[k]))
                    => /\ b.runtime_type = "Unknown"
                       /\ b.is_compatible = check_java_compatibility(b.version, "OpenJDK")
                       /\ b.is_compatible = check_java_compatibility(b.version, "HotSpot")

\* a banner with the Semeru and the OpenJDK marker was read as IBM Semeru,
\* and Java 8 update 345 judged by the Semeru minimum
C16_Witness ==
    \E w \in DOMAIN pc :
        \E i \in DOMAIN result[w].java_binaries :
            LET b == result[w].java_binaries[i]
            IN /\ b.version_output.markers = {"IBM Semeru", "OpenJDK"}
               /\ b.runtime_type = "IBM Semeru"
               /\ b.version = <<"1", ".", "8", ".", "0", "_", "3", "4", "5">>
               /\ b.is_compatible

\* the path starts with one of the five excluded prefixes or contains
\* /.dotnet/optimizationdata/
NotABinaryPath(p) ==
    \/ \E prefix \in { <<"var", "lib", "alternatives">>,
                        <<"var", "lib", "dpkg", "alternatives">>,
                        <<"etc", "alternatives">>,
                        <<"usr", "share", "bash-completion">>,
                        <<"etc", "bash_completion.d">> } :
          Len(p) > Len(prefix) /\ SubSeq(p, 1, Len(prefix)) = prefix
    \/ \E i \in 1..(Len(p) - 2) : p[i] = ".dotnet" /\ p[i + 1] = "optimizationdata"

NoExcludedBinary(r) ==
    \A family \in Families :
        \A i \in DOMAIN BinariesOf(r, family) : ~NotABinaryPath(BinariesOf(r, family)[i].path)

\* the step runs a probe container for analyzer w
ProbeStep(w) == trace'[w] = Append(trace[w], "run")

\* the entrypoint of the probe of the step: the path of the BinaryInfo the
\* same iteration records
ProbedPaths(w) ==
    { BinariesOf(result'[w], family)[Len(BinariesOf(result'[w], family))].path :
        family \in { f \in Families :
                       Len(BinariesOf(result'[w], f)) = Len(BinariesOf(result[w], f)) + 1 } }

\* C15: exclusion. No result, under construction, returned or in the ledger,
\* holds a binary whose container path starts with /var/lib/alternatives/,
\* /var/lib/dpkg/alternatives/, /etc/alternatives/,
\* /usr/share/bash-completion/ or /etc/bash_completion.d/ or contains
\* /.dotnet/optimizationdata/, and no probe is run with such a path as
\* entrypoint.
C15_Exclusion ==
    /\ [](\A w \in DOMAIN pc :
            /\ NoExcludedBinary(result[w])
            /\ NoExcludedBinary(ret[w])
            /\ \A k \in DOMAIN analyzed[w] : NoExcludedBinary(analyzed[w][k]))
    /\ [][\A w \in DOMAIN pc :
            ProbeStep(w) => /\ ProbedPaths(w) # {}
                            /\ \A p \in ProbedPaths(w) : ~NotABinaryPath(p)]_vars

\* an analysis of the tree with both kinds of excluded names has returned
\* the one runtime it holds
C15_Witness ==
    \E w \in DOMAIN pc :
        /\ pc[w] = "returned"
        /\ extracted[w] = "none"
        /\ call[w].image_name = "sdk"
        /\ ret[w] # NoResult
        /\ Len(ret[w].dotnet_binaries) = 1
        /\ ret[w].dotnet_binaries[1].path = <<"usr", "bin", "dotnet">>
        /\ ret[w].node_binaries = <<>>

-----------------------------------------------------------------------------
(* Properties of analyze_image                                              *)

Last(s) == s[Len(s)]

\* analyzer w's call has returned
Returned(w) == pc[w] = "returned"

\* analyzer w's call has returned after running the pipeline
RanAndReturned(w) == pc[w] = "returned" /\ ~call[w].cached

\* the current call's podman pull succeeded
Pulled(w) == "pull" \in Range(trace[w]) /\ "pull_failed" \notin events[w]

\* what makes the pipeline itself fail
PipelineFailures ==
    {"pull_failed", "create_failed", "export_failed", "tar_missing",
     "extract_failed", "no_files", "raised"}

AllBinaries(r) == Range(r.java_binaries) \cup Range(r.node_binaries) \cup Range(r.dotnet_binaries)

\* C1: idempotence. Whatever the first call's outcome, a second
\* analyze_image call with the same identity returns the first call's
\* result and runs no external command.
C1_Idempotent ==
    \A w \in DOMAIN pc :
        (Returned(w) /\ call[w].repeat)
            => /\ ret[w] = first[w][call[w].cache_key]
               /\ trace[w] = <<>>

C4_ErrorMeansEmptyLists ==
    \A w \in DOMAIN pc :
        (Returned(w) /\ ret[w].error # NoError)
            => /\ ret[w].java_binaries = <<>>
               /\ ret[w].node_binaries = <<>>
               /\ ret[w].dotnet_binaries = <<>>

\* C5: result.error is populated exactly when the pipeline itself failed
\* (pull, create, export, extraction, or a caught exception); a failed or
\* timed-out probe, an unknown version and a failed removal never populate
\* it, so a run that found no binaries returns error = None with three
\* empty lists.
C5_ErrorIffPipelineFailed ==
    \A w \in DOMAIN pc :
        RanAndReturned(w)
            => /\ ret[w].error # NoError <=> events[w] \cap PipelineFailures # {}
               /\ (/\ "run" \notin Range(trace[w])
                   /\ events[w] \cap PipelineFailures = {})
                     => ret[w] = NewResult(call[w].image_name, call[w].image_id)

\* a probe failed, its binary is recorded with version "unknown", and the
\* result carries no error
C5_Witness ==
    \E w \in DOMAIN pc :
        /\ RanAndReturned(w)
        /\ "probe_failed" \in events[w]
        /\ ret[w].error = NoError
        /\ \E b \in AllBinaries(ret[w]) : b.version = Unknown

\* the positions of a command in the commands of analyzer w's current call
Positions(w, command) == { i \in DOMAIN trace[w] : trace[w][i] = command }

\* every occurrence of the first command precedes every one of the second
Precedes(w, before, after) ==
    \A i \in Positions(w, before) : \A j \in Positions(w, after) : i < j

\* the steps of the pipeline in their order: podman pull, podman create,
\* podman export, tar, the probe containers, and _cleanup's podman rmi
PipelineSteps == <<"pull", "create", "export", "tar", "run", "rmi">>

\* the steps that may not follow a failure
StepsAfter(event) ==
    IF event = "pull_failed" THEN {"create", "export", "tar", "run"}
    ELSE IF event = "create_failed" THEN {"export", "tar", "run"}
    ELSE IF event \in {"export_failed", "tar_missing"} THEN {"tar", "run"}
    ELSE IF event \in {"extract_failed", "no_files"} THEN {"run"}
    ELSE {}

\* C17: in every call that runs the pipeline, pull, create, export and
\* extraction are each attempted at most once, in that order, before any
\* probe, and cleanup comes last; after a failed pull, export or extraction
\* no later step is run (no export, extraction or probe), a failed pull is
\* not retried, and the call has run cleanup when it returns.
C17_PipelineOrder ==
    \A w \in DOMAIN pc :
        /\ \A step \in {"pull", "create", "export", "tar"} :
              Cardinality(Positions(w, step)) <= 1
        /\ \A i, j \in DOMAIN PipelineSteps :
              i < j => Precedes(w, PipelineSteps[i], PipelineSteps[j])
        /\ Positions(w, "create") # {} => Positions(w, "pull") # {}
        /\ Positions(w, "export") # {} => Positions(w, "create") # {}
        /\ Positions(w, "tar") # {} => Positions(w, "export") # {}
        /\ Positions(w, "run") # {} => Positions(w, "tar") # {}
        /\ \A event \in events[w] :
              \A step \in StepsAfter(event) : Positions(w, step) = {}
        /\ RanAndReturned(w) => (trace[w] # <<>> /\ Last(trace[w]) = "rmi")

\* a call whose export failed has returned: pull, create, export, the
\* container's removal, then cleanup only
C17_Witness ==
    \E w \in DOMAIN pc :
        /\ RanAndReturned(w)
        /\ "export_failed" \in events[w]
        /\ SubSeq(trace[w], 1, 4) = <<"pull", "create", "export", "rm">>
        /\ Last(trace[w]) = "rmi"
        /\ ret[w].error # "None"

Created(w) == Positions(w, "create") # {} /\ "create_failed" \notin events[w]

C19_ExtractionByEntries ==
    \A w \in DOMAIN pc :
        "tar" \in Range(trace[w])
            => /\ "entries_landed" \in events[w] <=> "no_files" \notin events[w]
               /\ "extract_failed" \notin events[w]
               /\ ("no_files" \in events[w] /\ pc[w] # "extract")
                    => /\ Positions(w, "run") = {}
                       /\ result[w].error # "None"
                       /\ "raised" \notin events[w]
                            => result[w].error = "Tar extraction produced no files"
                       /\ RanAndReturned(w) => ret[w].error # "None"
               /\ ("entries_landed" \in events[w] /\ "raised" \notin events[w])
                    => result[w].error = "None"

\* tar exited non-zero, entries landed, and the call returned a result
\* without error that holds a binary
C19_Witness ==
    \E w \in DOMAIN pc :
        /\ RanAndReturned(w)
        /\ {"tar_nonzero", "entries_landed"} \subseteq events[w]
        /\ ret[w].error = "None"
        /\ ret[w].java_binaries # <<>>

\* C20: the ledger is write-once per key. No step of an analyze_image or
\* get_cached_result call removes an identity from _analyzed_images or
\* changes the result, or any field of the result, it is mapped to.
C20_LedgerWriteOnce ==
    [][\A w \in DOMAIN analyzed :
          \A k \in DOMAIN analyzed[w] :
              /\ k \in DOMAIN analyzed'[w]
              /\ analyzed'[w][k] = analyzed[w][k]]_vars

\* the ledger holds two identities, the first read back by
\* get_cached_result after the second was written
C20_Witness ==
    \E w \in DOMAIN pc :
        /\ Cardinality(DOMAIN analyzed[w]) = 2
        /\ call[w].cache_key \in DOMAIN analyzed[w]
        /\ \E k \in DOMAIN analyzed[w] :
              k # call[w].cache_key /\ got[w] = analyzed[w][k] /\ got[w] # NoResult

\* the call of analyzer w is between its successful pull and its own
\* cleanup: create, export and the probe containers need the image
NeedsImage(w) ==
    /\ pc[w] \in {"export", "extract", "java", "node", "dotnet"}
    /\ Pulled(w)

\* C21: two instances with their own working directories, run concurrently:
\* no worker's cleanup removes what the other worker's call in flight still
\* needs, its tarball, its extracted tree or the image it pulled.
C21_NoInterference ==
    \A w \in DOMAIN pc :
        /\ NeedsImage(w) => call[w].image_name \in images
        /\ pc[w] = "extract" => tarball[w] # "none"
        /\ pc[w] \in {"java", "node", "dotnet"} => extracted[w] = call[w].image_name

\* C22: whatever the working directory held when the call started, the
\* tree searched for binaries holds only what was extracted from the export
\* of the call's own image.
C22_NoStaleContent ==
    \A w \in DOMAIN pc :
        (pc[w] \in Families /\ ~call[w].cached) => extracted[w] = call[w].image_name

-----------------------------------------------------------------------------
(* Claims about the collector                                               *)

\* the collector lists the object's namespace and does not exclude it
Visible(o) ==
    /\ collector.namespace # <<>> => o.namespace = collector.namespace
    /\ ~is_namespace_excluded(collector, o.namespace)

\* the rows reported under the object
RowsOf(o) ==
    { i \in DOMAIN rows : /\ rows[i].object_type = o.kind
                          /\ rows[i].object_name = o.name
                          /\ rows[i].namespace = o.namespace }

\* a ReplicaSet owned by a Deployment, a Job owned by a CronJob, a Pod owned
\* by a ReplicaSet, StatefulSet, DaemonSet, Job or Deployment
OwnedChild(o) ==
    \/ o.kind = "ReplicaSet" /\ \E ref \in o.owner_references : ref.kind = "Deployment"
    \/ o.kind = "Job" /\ \E ref \in o.owner_references : ref.kind = "CronJob"
    \/ o.kind = "Pod" /\ \E ref \in o.owner_references :
          ref.kind \in {"ReplicaSet", "StatefulSet", "DaemonSet", "Job", "Deployment"}

\* the chains Deployment -> ReplicaSet -> Pod and CronJob -> Job -> Pod the
\* cluster holds
Chains ==
    LET objs == Range(cluster)
        MiddleKind(t) == IF t.kind = "Deployment" THEN "ReplicaSet" ELSE "Job"
        Owns(t, o, kind) == /\ o.kind = kind
                            /\ o.namespace = t.namespace
                            /\ Owner(t.kind, t.name) \in o.owner_references
    IN UNION { UNION { { <<t, m, p>> : p \in { o \in objs : Owns(m, o, "Pod") } } :
                       m \in { o \in objs : Owns(t, o, MiddleKind(t)) } } :
               t \in { o \in objs : o.kind \in {"Deployment", "CronJob"} } }

\* every container of the chain's pod template has exactly one row among
\* the rows of the chain's three objects, and it is the top-level
\* controller's
ReportedOnceUnderTop(ch) ==
    \A c \in Range(ch[1].containers \o ch[1].init_containers) :
        LET reported == { i \in RowsOf(ch[1]) \cup RowsOf(ch[2]) \cup RowsOf(ch[3]) :
                            rows[i].container_name = c.name }
        IN Cardinality(reported) = 1 /\ reported \subseteq RowsOf(ch[1])

NoOwnedChildReported ==
    \A o \in Range(cluster) : OwnedChild(o) => RowsOf(o) = {}

RowImages == { rows[i].image_name : i \in DOMAIN rows }

\* how many analyze_image calls analyze_images has made for the name
TimesRequested(image_name) ==
    Cardinality({ i \in DOMAIN requested : requested[i] = image_name })

\* the rows of the given images, each carrying the analysis of the result
\* analyze_image returned for its image_name
RowsWithResults(image_names) ==
    SelectSeq([i \in DOMAIN rows |->
                  IF rows[i].image_name \in DOMAIN first[1]
                  THEN [rows[i] EXCEPT !.analysis = AnalysisOf(first[1][rows[i].image_name])]
                  ELSE rows[i]],
              LAMBDA img : img.image_name \in image_names)

\* C24: analyze_images calls analyze_image once per distinct image_name of
\* the rows and for no other name; the loop asks for the next image only
\* when no call is in flight and the last call's cleanup has run to its
\* final rmi; when analyze_images returns, every row carries the analysis
\* fields of the result returned for its own image_name
C24_OncePerImage ==
    /\ Range(requested) \subseteq RowImages
    /\ \A image_name \in RowImages : TimesRequested(image_name) <= 1
    /\ kpc \in {"loop", "done"} =>
          \A w \in DOMAIN pc :
              /\ pc[w] \in {"idle", "returned"}
              /\ requested # <<>> => Last(trace[w]) = "rmi"
    /\ kpc = "done" =>
          /\ \A image_name \in RowImages : TimesRequested(image_name) = 1
          /\ rows = RowsWithResults(RowImages)

C24_Witness ==
    /\ kpc = "done"
    /\ Len(requested) = 2
    /\ \E i, j \in DOMAIN rows :
          /\ i # j
          /\ rows[i].image_name = rows[j].image_name
          /\ rows[i].analysis = rows[j].analysis
    /\ \E i \in DOMAIN rows : rows[i].analysis.java_binary.parts # <<>>
    /\ \E i \in DOMAIN rows : rows[i].analysis.analysis_error # Text("")

\* C25: with a CSV path, once the k-th image has been processed the file
\* holds exactly the rows of the k images processed so far, each with the
\* analysis of its image's result, and after the final save it holds every
\* collected row
C25_ProgressCheckpoint ==
    csv.filepath =>
        /\ (kpc = "loop" /\ requested # <<>>) =>
              /\ csv.exists
              /\ csv.lines = to_dataframe(RowsWithResults(Range(requested)))
        /\ kpc = "done" =>
              /\ csv.exists
              /\ Len(csv.lines) = Len(rows)
              /\ csv.lines = to_dataframe(RowsWithResults(RowImages))

C25_Witness ==
    /\ csv.filepath
    /\ kpc = "loop"
    /\ Len(requested) = 1
    /\ unique_images # {}
    /\ csv.lines # <<>>
    /\ Len(csv.lines) < Len(rows)

\* the binaries a result records for the family
Recorded(w, family) ==
    IF family = "java" THEN result[w].java_binaries
    ELSE IF family = "node" THEN result[w].node_binaries
    ELSE result[w].dotnet_binaries

\* C28: every path recorded in java_binaries, node_binaries or
\* dotnet_binaries ends in the family's name
C28_RecordedPathsMatch ==
    \A w \in DOMAIN pc : \A family \in Families :
        \A i \in DOMAIN Recorded(w, family) :
            BaseName(Recorded(w, family)[i].path) = BinaryName(family)

\* C29: every candidate the locator returned is a path under the extracted
\* root and names a file under the extracted root, and no recorded
\* container path climbs out of the root with ".."
C29_InsideExtractedTree ==
    \A w \in DOMAIN pc :
        /\ pc[w] \in Families =>
              \A i \in DOMAIN todo[w] :
                  /\ HasPrefix(NormPath(todo[w][i]), ExtractPath)
                  /\ HasPrefix(RealPathIn[extracted[w]][todo[w][i]], ExtractPath)
        /\ \A family \in Families : \A i \in DOMAIN Recorded(w, family) :
              ".." \notin Range(Recorded(w, family)[i].path)

\* C26: every analyze_image call that has started eventually returns
C26_EventuallyReturns ==
    \A w \in Analyzers : (pc[w] \notin {"idle", "returned"}) ~> (pc[w] = "returned")

C26_Witness ==
    \E w \in Analyzers :
        /\ pc[w] = "returned"
        /\ call[w].image_name = "cycle"
        /\ ret[w].error = NoError
        /\ Len(ret[w].node_binaries) = 1

\* the other spelling of the Java version under study: the same components
\* with "1." taken off or put in front
OtherSpelling == WrittenVersion(~cin.legacy, FALSE, cin.comps)

\* C27: legacy-encoding equivalence. For every flavor and every version
\* M.m.u or M.m.u.x with M >= 2, the Java classifier returns the same
\* verdict for the version and for "1." followed by it.
C27_LegacyEquivalence ==
    (JavaCallReturned /\ WrittenMajor >= 2 /\ Len(cin.comps) >= 3)
        => (cverdict <=> check_java_compatibility(OtherSpelling, cin.flavor))

\* every probe of the family in the call exited 0
ProbesSucceeded(w, family) == ProbeFailed(family) \notin events[w]

\* the call made one probe of the family, and it exited non-zero
OneProbeFailed(w, family) ==
    /\ ProbeFailed(family) \in events[w]
    /\ Len(Recorded(w, family)) = 1

\* C30: the probe's exit status does not influence the outcome. Two probes
\* of the same family that printed the same text, one exiting 0 and the
\* other non-zero, are recorded with the same version, the same flavor
\* and the same verdict.
C30_ExitStatusIgnored ==
    \A w1 \in DOMAIN pc : \A w2 \in DOMAIN pc : \A family \in Families :
        (ProbesSucceeded(w1, family) /\ OneProbeFailed(w2, family))
            => \A i \in DOMAIN Recorded(w1, family) :
                  LET ok     == Recorded(w1, family)[i]
                      failed == Recorded(w2, family)[1]
                  IN ok.version_output = failed.version_output
                        => /\ ok.version = failed.version
                           /\ ok.runtime_type = failed.runtime_type
                           /\ ok.is_compatible = failed.is_compatible

\* the probes of family in two calls printed the same text, that of w1
\* exiting 0 and that of w2 non-zero, and the version was found in it
SameTextOtherExit(w1, w2, family) ==
    /\ ProbesSucceeded(w1, family)
    /\ OneProbeFailed(w2, family)
    /\ Len(Recorded(w1, family)) = 1
    /\ Recorded(w1, family)[1].version_output = Recorded(w2, family)[1].version_output
    /\ Recorded(w2, family)[1].version # Unknown

\* two workers' probes of node, and their probes of dotnet, printed the
\* same text with different exit statuses
C30_Witness ==
    \E w1 \in DOMAIN pc : \E w2 \in DOMAIN pc :
        /\ SameTextOtherExit(w1, w2, "node")
        /\ SameTextOtherExit(w1, w2, "dotnet")

====
